---------------------------- MODULE Spec2Model ----------------------------
(***************************************************************************)
(* Arbitrage engine of coinbot: the trade execution engine                 *)
(* (TradeExecutionService.executeOnce and the steps it awaits), the        *)
(* monitoring cycle and intensity accumulator of KimchiMonitoringService,  *)
(* and its scheduler (startMonitoring, stopMonitoring, the timer).         *)
(*                                                                         *)
(* Trade execution.  Every executeOnce invocation is a process p of Calls, *)
(* all for the same (userId, symbol) pair, so that all of them use the     *)
(* same Redis key lock:trade:<userId>:<symbol>.  An invocation moves from  *)
(* one await to the next; every await is one action.  The stores an        *)
(* invocation talks to can fail: a failing MySQL statement throws and      *)
(* leaves the row as it was, a failing Redis command throws and leaves the *)
(* key as it was.  The key carries EX 300: its expiry is the action        *)
(* Expire, which may happen whenever the key is set, since nothing bounds  *)
(* the time an invocation spends in an await.                              *)
(***************************************************************************)
EXTENDS Integers, Sequences, FiniteSets, TLC

\* Number of executeOnce invocations for the pair.
MaxCalls == 2
\* Number of store commands (MySQL statements, Redis commands) that fail in one run.
MaxFaults == 1
\* Amounts (budget, min_trade_amount_krw, max_trade_amount_krw) range over 0..MaxAmount+1.
MaxAmount == 2

Calls == 1..MaxCalls

\* The absent value: no key in Redis, tradeId = null.
Null == 0

VARIABLES
    pc,             \* the await each invocation is at
    lockKey,        \* Redis key lock:trade:<userId>:<symbol>: Null or the token it holds
    lockAcquired,   \* executeOnce's lockAcquired: the SET NX of the invocation answered OK
    dryRun,         \* executeOnce's dryRun argument: "unread" until executeBuyOrder reads it
    tradeId,        \* executeOnce's tradeId
    executionResult,\* executeTradeCycle's result: "none", "ok", or its error message
    error,          \* the error executeOnce caught
    outcome,        \* how the invocation ends: "running", "returned" or "thrown"
    result,         \* the object of the return statement
    faults,         \* store commands that failed so far
    trade_history,  \* table trade_history: a sequence of rows, insertId = position
    statusLog       \* per row, the status values persisted so far (history)

tradeVars == <<pc, lockKey, lockAcquired, dryRun, tradeId, executionResult,
               error, outcome, result, trade_history, statusLog>>

VARIABLES
    mpc,                  \* the await each monitorAllCoins invocation is at
    results,              \* monitorAllCoins' results: per coin, how calculateCoinPremium settled
    idx,                  \* the coin the invocation's loop is at
    activeUsers,          \* monitorAllCoins' activeUsers
    usr,                  \* the user the invocation's loop is at
    currentIntensity,     \* currentIntensity of the update the invocation is in
    newIntensity,         \* newIntensity of the update the invocation is in
    settings,             \* this.settings of the monitoring service
    userSettings,         \* bot_settings of every user, as getUserSettings returns them
    trading_intensity,    \* table trading_intensity: a set of rows
    intensityCache,       \* Redis keys intensity:<symbol> and intensity:user:<id>:<symbol>
    trading_opportunities,\* Redis list trading_opportunities, newest first
    coinMappings,         \* this.coinMappings: the basket, coins 1..n
    updated,              \* per invocation, the coins updateTradingIntensity was called for
    summary               \* per invocation, the summary monitorAllCoins returned

monitorVars == <<mpc, results, idx, activeUsers, usr, currentIntensity, newIntensity,
                 settings, userSettings, trading_intensity, intensityCache,
                 trading_opportunities, coinMappings, updated, summary>>

VARIABLES
    isRunning,          \* this.isRunning
    monitoringInterval, \* this.monitoringInterval: Null or the timer setInterval returned
    timer,              \* per startMonitoring invocation, the timer it armed
    spc,                \* the await each startMonitoring invocation is at
    sret,               \* what each startMonitoring invocation returned
    cycles,             \* the monitorAllCoins invocations of the scheduler, oldest first
    ticks,              \* timer callbacks run so far
    unhandled,          \* a timer callback's promise was rejected
    stopResult,         \* what the last stopMonitoring call returned
    stopped             \* stopMonitoring returned true and startMonitoring was not
                        \* invoked since (history)

schedVars == <<isRunning, monitoringInterval, timer, spc, sret, cycles, ticks,
               unhandled, stopResult, stopped>>

VARIABLES
    ppc,                \* how far the pricing of the fetched order books has come
    upbitOrderbook,     \* what upbitService.getOrderbook resolved with
    binanceOrderbook,   \* what binanceService.getOrderbook resolved with
    exchangeRate,       \* the rate of what exchangeRateService.getUsdKrwRate resolved with
    budgetKrw,          \* calculateTradeParameters' budgetKrw
    side,               \* calculateAveragePrice's side
    average,            \* what a call of calculateAveragePrice returned
    coinPremium,        \* what calculateCoinPremium returned
    premiumLatest,      \* Redis key premium:<symbol>:latest
    marketAnalysis,     \* what analyzeMarket returned
    tradeParams         \* what calculateTradeParameters returned

priceVars == <<ppc, upbitOrderbook, binanceOrderbook, exchangeRate, budgetKrw, side,
               average, coinPremium, premiumLatest, marketAnalysis, tradeParams>>

vars == <<tradeVars, faults, monitorVars, schedVars, priceVars>>

--------------------------------------------------------------------------
(* validateTradeConditions *)

RequiredSettings == {"min_trade_amount_krw", "max_trade_amount_krw",
                     "premium_threshold_percent", "trading_intensity_threshold"}

\* What validateTradeConditions reads: the user's active bot_settings keys and the two
\* amounts, the budget, the rows of the coin and exchange queries, the verified
\* credentials, the two deposit addresses, and whether a query threw.
ValidationInputs ==
    [ settings : SUBSET RequiredSettings,
      min : 1..MaxAmount, max : 1..MaxAmount, budget : 0..(MaxAmount + 1),
      coinRows : 0..1, exchangeRows : 1..2, verifiedExchanges : 1..2,
      upbitAddr : BOOLEAN, binanceAddr : BOOLEAN, dbError : BOOLEAN ]

\* validateTradeConditions without its deposit-address check.
ValidateTradeConditions_NoAddressCheck(in) ==
    IF in.dbError THEN "VERIFY_FAILED"
    ELSE IF RequiredSettings \ in.settings # {} THEN "SETTINGS_INCOMPLETE"
    ELSE IF in.budget < in.min \/ in.budget > in.max THEN "BUDGET_RANGE"
    ELSE IF in.coinRows = 0 THEN "COIN_NOT_TRADABLE"
    ELSE IF in.exchangeRows < 2 THEN "EXCHANGES_INACTIVE"
    ELSE IF in.verifiedExchanges < 2 THEN "API_KEYS"
    ELSE "VALID"

ValidateTradeConditions(in) ==
    IF in.dbError THEN "VERIFY_FAILED"
    ELSE IF RequiredSettings \ in.settings # {} THEN "SETTINGS_INCOMPLETE"
    ELSE IF in.budget < in.min \/ in.budget > in.max THEN "BUDGET_RANGE"
    ELSE IF in.coinRows = 0 THEN "COIN_NOT_TRADABLE"
    ELSE IF in.exchangeRows < 2 THEN "EXCHANGES_INACTIVE"
    ELSE IF in.verifiedExchanges < 2 THEN "API_KEYS"
    ELSE IF ~in.upbitAddr \/ ~in.binanceAddr THEN "DEPOSIT_ADDRESS"
    ELSE "VALID"

\* The answers validateTradeConditions can give.
ValidationAnswers == { ValidateTradeConditions(in) : in \in ValidationInputs }

--------------------------------------------------------------------------
(* trade_history rows *)

TerminalStatus == {"completed", "failed"}

\* createTradeRecord's INSERT: status 'pending', completed_at left NULL, and 0 in
\* gross_profit, net_profit, profit_rate, trading_fees and transfer_fees (profits is
\* "zero" when the five are 0, "calculated" when they are what calculateProfit returned).
NewTradeRow(p) ==
    [status |-> "pending", completed_at |-> FALSE, error_message |-> "none",
     profits |-> "zero", owner |-> p]

\* An UPDATE of the status without its WHERE id = ? clause.
UpdateStatus_EveryRow(id, st) ==
    /\ trade_history' = [j \in 1..Len(trade_history) |->
                            [trade_history[j] EXCEPT !.status = st]]
    /\ statusLog' = [statusLog EXCEPT ![id] = Append(@, st)]

\* updateTradeRecord(tradeId, {status}): one UPDATE of the row's status.
UpdateStatus(id, st) ==
    /\ trade_history' = [trade_history EXCEPT ![id].status = st]
    /\ statusLog' = [statusLog EXCEPT ![id] = Append(@, st)]

\* finalizeTradeRecord without error_message.
FinalizeTradeRecord_NoErrorMessage(id, res) ==
    /\ trade_history' = [trade_history EXCEPT
           ![id].status = IF res = "ok" THEN "completed" ELSE "failed",
           ![id].profits = IF res = "ok" THEN "calculated" ELSE "zero",
           ![id].completed_at = TRUE]
    /\ statusLog' = [statusLog EXCEPT
           ![id] = Append(@, IF res = "ok" THEN "completed" ELSE "failed")]

\* finalizeTradeRecord: status, the profit fields, completed_at and error_message
\* (executionResult.error || null) in one UPDATE.
FinalizeTradeRecord(id, res) ==
    /\ trade_history' = [trade_history EXCEPT
           ![id].status = IF res = "ok" THEN "completed" ELSE "failed",
           ![id].profits = IF res = "ok" THEN "calculated" ELSE "zero",
           ![id].completed_at = TRUE,
           ![id].error_message = IF res = "ok" THEN "none" ELSE res]
    /\ statusLog' = [statusLog EXCEPT
           ![id] = Append(@, IF res = "ok" THEN "completed" ELSE "failed")]

\* markTradeFailed without completed_at.
MarkTradeFailed_NoCompletedAt(id, errorMessage) ==
    /\ trade_history' = [trade_history EXCEPT
           ![id].status = "failed", ![id].error_message = errorMessage]
    /\ statusLog' = [statusLog EXCEPT ![id] = Append(@, "failed")]

\* markTradeFailed: status 'failed', error_message and completed_at in one UPDATE.
MarkTradeFailed(id, errorMessage) ==
    /\ trade_history' = [trade_history EXCEPT
           ![id].status = "failed", ![id].completed_at = TRUE,
           ![id].error_message = errorMessage]
    /\ statusLog' = [statusLog EXCEPT ![id] = Append(@, "failed")]

--------------------------------------------------------------------------
(* executeOnce *)

NoResult == [success |-> FALSE, tradeId |-> Null, error |-> "none"]

TradeInit ==
    /\ pc = [p \in Calls |-> "idle"]
    /\ lockKey = Null
    /\ lockAcquired = [p \in Calls |-> FALSE]
    /\ dryRun = [p \in Calls |-> "unread"]
    /\ tradeId = [p \in Calls |-> Null]
    /\ executionResult = [p \in Calls |-> "none"]
    /\ error = [p \in Calls |-> "none"]
    /\ outcome = [p \in Calls |-> "running"]
    /\ result = [p \in Calls |-> NoResult]
    /\ faults = 0
    /\ trade_history = << >>
    /\ statusLog = << >>

\* The uuid of the invocation: distinct for distinct invocations.
LockToken(p) == p

\* A store command fails: it throws and changes nothing in the store.
StoreFault ==
    /\ faults < MaxFaults
    /\ faults' = faults + 1

\* A throw inside the try block: control goes to the catch block.
Throw(p, e) ==
    /\ pc' = [pc EXCEPT ![p] = "catch"]
    /\ error' = [error EXCEPT ![p] = e]

\* executeOnce is called: lockKey, lockToken and tradeId = null are set up.  The
\* invocations are numbered in the order they are made.
Invoke(p) ==
    /\ pc[p] = "idle"
    /\ UNCHANGED <<monitorVars, schedVars, priceVars>>
    /\ \A q \in Calls : q < p => pc[q] # "idle"
    /\ pc' = [pc EXCEPT ![p] = "lock"]
    /\ UNCHANGED <<lockKey, lockAcquired, dryRun, tradeId, executionResult, error,
                   outcome, result, faults, trade_history, statusLog>>

\* redis.set(lockKey, lockToken, 'EX', 300, 'NX'): sets the key only when it is absent.
SetNX(p) ==
    IF lockKey = Null
    THEN /\ lockKey' = LockToken(p)
         /\ lockAcquired' = [lockAcquired EXCEPT ![p] = TRUE]
         /\ pc' = [pc EXCEPT ![p] = "validate"]
         /\ UNCHANGED error
    ELSE /\ Throw(p, "IN_PROGRESS")
         /\ UNCHANGED <<lockKey, lockAcquired>>

AcquireLock(p) ==
    /\ pc[p] = "lock"
    /\ UNCHANGED <<monitorVars, schedVars, priceVars>>
    /\ \/ SetNX(p) /\ UNCHANGED faults
       \/ StoreFault /\ Throw(p, "REDIS_ERROR") /\ UNCHANGED <<lockKey, lockAcquired>>
    /\ UNCHANGED <<dryRun, tradeId, executionResult, outcome, result,
                   trade_history, statusLog>>

\* validateTradeConditions, and the throw of validation.error when it is not valid.
Validate(p) ==
    /\ pc[p] = "validate"
    /\ UNCHANGED <<monitorVars, schedVars, priceVars>>
    /\ \E v \in ValidationAnswers :
          IF v = "VALID"
          THEN pc' = [pc EXCEPT ![p] = "create"] /\ UNCHANGED error
          ELSE Throw(p, "VALIDATION")
    /\ UNCHANGED <<lockKey, lockAcquired, dryRun, tradeId, executionResult,
                   outcome, result, faults, trade_history, statusLog>>

CreateTradeRecord(p) ==
    /\ pc[p] = "create"
    /\ UNCHANGED <<monitorVars, schedVars, priceVars>>
    /\ \/ /\ trade_history' = Append(trade_history, NewTradeRow(p))
          /\ statusLog' = Append(statusLog, <<"pending">>)
          /\ tradeId' = [tradeId EXCEPT ![p] = Len(trade_history) + 1]
          /\ pc' = [pc EXCEPT ![p] = "analyze"]
          /\ UNCHANGED <<error, faults>>
       \/ /\ StoreFault
          /\ Throw(p, "DB_ERROR")
          /\ UNCHANGED <<trade_history, statusLog, tradeId>>
    /\ UNCHANGED <<lockKey, lockAcquired, dryRun, executionResult, outcome, result>>

\* analyzeMarket and calculateTradeParameters: they write nothing; analyzeMarket throws
\* when a fetch fails or an order-book side is empty.
AnalyzeMarket(p) ==
    /\ pc[p] = "analyze"
    /\ UNCHANGED <<monitorVars, schedVars, priceVars>>
    /\ \/ pc' = [pc EXCEPT ![p] = "cycle"] /\ UNCHANGED error
       \/ Throw(p, "MARKET_ERROR")
    /\ UNCHANGED <<lockKey, lockAcquired, dryRun, tradeId, executionResult,
                   outcome, result, faults, trade_history, statusLog>>

\* executeTradeCycle's catch block: the cycle ends with success = false and
\* error = error.message.
CycleFails(p, e) ==
    /\ executionResult' = [executionResult EXCEPT ![p] = e]
    /\ pc' = [pc EXCEPT ![p] = "finalize"]

\* executeTradeCycle, first UPDATE: exchange ids, prices and quantity (no status).
CycleStart(p) ==
    /\ pc[p] = "cycle"
    /\ UNCHANGED <<monitorVars, schedVars, priceVars>>
    /\ \/ pc' = [pc EXCEPT ![p] = "buying"] /\ UNCHANGED <<executionResult, faults>>
       \/ StoreFault /\ CycleFails(p, "DB_ERROR")
    /\ UNCHANGED <<lockKey, lockAcquired, dryRun, tradeId, error,
                   outcome, result, trade_history, statusLog>>

\* updateTradeRecord(tradeId, {status: st}) inside executeTradeCycle.
SetStatus(p, at, st, next) ==
    /\ pc[p] = at
    /\ UNCHANGED <<monitorVars, schedVars, priceVars>>
    /\ \/ /\ UpdateStatus(tradeId[p], st)
          /\ pc' = [pc EXCEPT ![p] = next]
          /\ UNCHANGED <<executionResult, faults>>
       \/ /\ StoreFault
          /\ CycleFails(p, "DB_ERROR")
          /\ UNCHANGED <<trade_history, statusLog>>
    /\ UNCHANGED <<lockKey, lockAcquired, dryRun, tradeId, error, outcome, result>>

\* A step that simulates also when dryRun is false.
Step_IgnoresDryRun(p, next) ==
    pc' = [pc EXCEPT ![p] = next] /\ UNCHANGED executionResult

\* The body of executeBuyOrder, executeTransfer and executeSellOrder: a simulated delay
\* in dry run, a throw otherwise.
Step(p, next) ==
    IF dryRun'[p] = "true"
    THEN pc' = [pc EXCEPT ![p] = next] /\ UNCHANGED executionResult
    ELSE CycleFails(p, "STEP_ERROR")

\* executeTradeCycle going to executeBuyOrder without its write of 'buying'.
SetBuying_NoWrite(p) ==
    /\ pc[p] = "buying"
    /\ pc' = [pc EXCEPT ![p] = "buy"]
    /\ UNCHANGED <<lockKey, lockAcquired, dryRun, tradeId, executionResult, error,
                   outcome, result, faults, trade_history, statusLog>>
    /\ UNCHANGED <<monitorVars, schedVars, priceVars>>

SetBuying(p) == SetStatus(p, "buying", "buying", "buy")

\* executeBuyOrder: the first statement that depends on dryRun.
ExecuteBuyOrder(p) ==
    /\ pc[p] = "buy"
    /\ UNCHANGED <<monitorVars, schedVars, priceVars>>
    /\ \E d \in {"true", "false"} : dryRun' = [dryRun EXCEPT ![p] = d]
    /\ Step(p, "transferring")
    /\ UNCHANGED <<lockKey, lockAcquired, tradeId, error, outcome, result, faults,
                   trade_history, statusLog>>

\* executeTradeCycle writing 'selling' where it should write 'transferring'.
SetTransferring_WritesSelling(p) == SetStatus(p, "transferring", "selling", "transfer")

SetTransferring(p) == SetStatus(p, "transferring", "transferring", "transfer")

ExecuteTransfer(p) ==
    /\ pc[p] = "transfer"
    /\ UNCHANGED <<monitorVars, schedVars, priceVars>>
    /\ UNCHANGED dryRun
    /\ Step(p, "selling")
    /\ UNCHANGED <<lockKey, lockAcquired, tradeId, error, outcome, result, faults,
                   trade_history, statusLog>>

SetSelling(p) == SetStatus(p, "selling", "selling", "sell")

\* executeSellOrder, then calculateProfit: the cycle ends with success = true.
ExecuteSellOrder(p) ==
    /\ pc[p] = "sell"
    /\ UNCHANGED <<monitorVars, schedVars, priceVars>>
    /\ UNCHANGED dryRun
    /\ IF dryRun[p] = "true"
       THEN /\ executionResult' = [executionResult EXCEPT ![p] = "ok"]
            /\ pc' = [pc EXCEPT ![p] = "finalize"]
       ELSE CycleFails(p, "STEP_ERROR")
    /\ UNCHANGED <<lockKey, lockAcquired, tradeId, error, outcome, result, faults,
                   trade_history, statusLog>>

\* A try block that returns success = true whatever the cycle returned.
TryResult_AlwaysSuccess(p) ==
    [success |-> TRUE, tradeId |-> tradeId[p],
     error |-> IF executionResult[p] = "ok" THEN "none" ELSE executionResult[p]]

\* The object the try block returns after finalizeTradeRecord.
TryResult(p) ==
    [success |-> executionResult[p] = "ok", tradeId |-> tradeId[p],
     error |-> IF executionResult[p] = "ok" THEN "none" ELSE executionResult[p]]

\* The object the catch block returns.
CatchResult(p) == [success |-> FALSE, tradeId |-> tradeId[p], error |-> error[p]]

\* finalizeTradeRecord, then the return statement of the try block.
Finalize(p) ==
    /\ pc[p] = "finalize"
    /\ UNCHANGED <<monitorVars, schedVars, priceVars>>
    /\ \/ /\ FinalizeTradeRecord(tradeId[p], executionResult[p])
          /\ result' = [result EXCEPT ![p] = TryResult(p)]
          /\ outcome' = [outcome EXCEPT ![p] = "returned"]
          /\ pc' = [pc EXCEPT ![p] = "release"]
          /\ UNCHANGED <<error, faults>>
       \/ /\ StoreFault
          /\ Throw(p, "DB_ERROR")
          /\ UNCHANGED <<trade_history, statusLog, result, outcome>>
    /\ UNCHANGED <<lockKey, lockAcquired, dryRun, tradeId, executionResult>>

\* The catch block: markTradeFailed when a row exists, then the failure object.  A throw
\* of markTradeFailed leaves the catch block by exception.
Catch(p) ==
    /\ pc[p] = "catch"
    /\ UNCHANGED <<monitorVars, schedVars, priceVars>>
    /\ \/ /\ IF tradeId[p] # Null
             THEN MarkTradeFailed(tradeId[p], error[p])
             ELSE UNCHANGED <<trade_history, statusLog>>
          /\ result' = [result EXCEPT ![p] = CatchResult(p)]
          /\ outcome' = [outcome EXCEPT ![p] = "returned"]
          /\ UNCHANGED faults
       \/ /\ tradeId[p] # Null
          /\ StoreFault
          /\ outcome' = [outcome EXCEPT ![p] = "thrown"]
          /\ UNCHANGED <<trade_history, statusLog, result>>
    /\ pc' = [pc EXCEPT ![p] = "release"]
    /\ UNCHANGED <<lockKey, lockAcquired, dryRun, tradeId, executionResult, error>>

\* A throw inside the finally block: it replaces the pending return.
FinallyThrows(p) ==
    /\ StoreFault
    /\ outcome' = [outcome EXCEPT ![p] = "thrown"]
    /\ pc' = [pc EXCEPT ![p] = "done"]

\* The finally block, first await: currentToken = redis.get(lockKey), compared with
\* lockToken.
ReleaseGet(p) ==
    /\ pc[p] = "release"
    /\ UNCHANGED <<monitorVars, schedVars, priceVars>>
    /\ \/ /\ pc' = [pc EXCEPT ![p] = IF lockKey = LockToken(p) THEN "del" ELSE "done"]
          /\ UNCHANGED <<outcome, faults>>
       \/ FinallyThrows(p)
    /\ UNCHANGED <<lockKey, lockAcquired, dryRun, tradeId, executionResult,
                   error, result, trade_history, statusLog>>

\* A finally block that leaves the key in place.
DelKey_KeepsKey == UNCHANGED lockKey

\* redis.del(lockKey): deletes the key, whatever it holds by now.
DelKey == lockKey' = Null

\* The finally block, second await: redis.del(lockKey) after currentToken === lockToken.
ReleaseDel(p) ==
    /\ pc[p] = "del"
    /\ UNCHANGED <<monitorVars, schedVars, priceVars>>
    /\ \/ /\ DelKey
          /\ pc' = [pc EXCEPT ![p] = "done"]
          /\ UNCHANGED <<outcome, faults>>
       \/ FinallyThrows(p) /\ UNCHANGED lockKey
    /\ UNCHANGED <<lockAcquired, dryRun, tradeId, executionResult, error,
                   result, trade_history, statusLog>>

\* A key set without a time to live: it never expires.
Expire_Never == FALSE

\* The key's EX 300 elapses.
Expire ==
    /\ lockKey # Null
    /\ UNCHANGED <<monitorVars, schedVars, priceVars>>
    /\ lockKey' = Null
    /\ UNCHANGED <<pc, lockAcquired, dryRun, tradeId, executionResult, error,
                   outcome, result, faults, trade_history, statusLog>>

TradeNext ==
    \/ \E p \in Calls : Invoke(p)
    \/ \E p \in Calls : AcquireLock(p)
    \/ \E p \in Calls : Validate(p)
    \/ \E p \in Calls : CreateTradeRecord(p)
    \/ \E p \in Calls : AnalyzeMarket(p)
    \/ \E p \in Calls : CycleStart(p)
    \/ \E p \in Calls : SetBuying(p)
    \/ \E p \in Calls : ExecuteBuyOrder(p)
    \/ \E p \in Calls : SetTransferring(p)
    \/ \E p \in Calls : ExecuteTransfer(p)
    \/ \E p \in Calls : SetSelling(p)
    \/ \E p \in Calls : ExecuteSellOrder(p)
    \/ \E p \in Calls : Finalize(p)
    \/ \E p \in Calls : Catch(p)
    \/ \E p \in Calls : ReleaseGet(p)
    \/ \E p \in Calls : ReleaseDel(p)
    \/ Expire

--------------------------------------------------------------------------
(* KimchiMonitoringService: the monitoring cycle and the intensity accumulator *)
(*                                                                         *)
(* Every monitorAllCoins invocation (a timer tick of startMonitoring or a  *)
(* POST /api/monitoring/run-once) is a process c of Cycles.  Nothing in    *)
(* the service keeps a second invocation from starting while one is in     *)
(* flight, so the invocations interleave at their awaits.  Premiums and    *)
(* thresholds are whole percents.                                          *)

\* Largest number of coins in coinMappings.
MaxCoins == 2
\* Number of users with a bot.
MaxUsers == 1
\* Number of monitorAllCoins invocations.
MaxCycles == 2
\* premiumPercent ranges over -MaxPremium..MaxPremium.
MaxPremium == 1
\* trading_intensity_threshold ranges over 1..MaxThreshold.
MaxThreshold == 2

Coins == 1..MaxCoins
Users == 1..MaxUsers
Cycles == 1..MaxCycles
Premiums == (-MaxPremium)..MaxPremium

\* premium_threshold_percent values: one of them is above every premium.
Thresholds == 1..(MaxPremium + 1)

\* Number.prototype's Math.abs and Math.max on the integers of the model.
Abs(x) == IF x < 0 THEN -x ELSE x

Max(a, b) == IF a >= b THEN a ELSE b

\* How a calculateCoinPremium promise stands in results.
Pending == [status |-> "pending", premiumPercent |-> 0]

Failed == [status |-> "failed", premiumPercent |-> 0]

Fulfilled(p) == [status |-> "fulfilled", premiumPercent |-> p]

\* The seed of the schema: a global row with intensity 0 for the coins active then.
SeedRows(seeded) ==
    { [coin_id |-> k, user_id |-> Null, current_intensity |-> 0, last_premium_rate |-> 0] :
        k \in seeded }

\* The summary of an invocation that has not returned one.
NoSummary == [totalCoins |-> 0, successful |-> 0, failed |-> 0]

\* The service's settings, the database and Redis before a cycle, with no invocation in
\* an update.
MonitorStore ==
    /\ results = [c \in Cycles |-> [k \in Coins |-> Pending]]
    /\ idx = [c \in Cycles |-> 0]
    /\ activeUsers = [c \in Cycles |-> {}]
    /\ usr = [c \in Cycles |-> 0]
    /\ currentIntensity = [c \in Cycles |-> 0]
    /\ newIntensity = [c \in Cycles |-> 0]
    /\ settings \in [premiumThresholdPercent : 1..MaxPremium,
                     tradingIntensityThreshold : 1..MaxThreshold]
    /\ userSettings \in [Users -> [premiumThresholdPercent : Thresholds,
                                   tradingIntensityThreshold : 1..MaxThreshold]]
    /\ coinMappings \in { 1..n : n \in 1..MaxCoins }
    /\ \E seeded \in SUBSET coinMappings : trading_intensity = SeedRows(seeded)
    /\ intensityCache = {}
    /\ updated = [c \in Cycles |-> {}]

MonitorInit ==
    /\ MonitorStore
    /\ trading_opportunities = << >>
    /\ mpc = [c \in Cycles |-> "idle"]
    /\ summary = [c \in Cycles |-> NoSummary]

\* The rows a query with WHERE c.symbol = k AND ti.user_id = s (IS NULL) matches.
Rows(k, s) == { r \in trading_intensity : r.coin_id = k /\ r.user_id = s }

\* rows.length > 0 ? rows[0].current_intensity : 0
SelectIntensity(k, s) ==
    IF Rows(k, s) = {} THEN 0 ELSE (CHOOSE r \in Rows(k, s) : TRUE).current_intensity

\* The same reading of a given state of the table.
IntensityIn(table, k, s) ==
    LET R == { r \in table : r.coin_id = k /\ r.user_id = s }
    IN  IF R = {} THEN 0 ELSE (CHOOSE r \in R : TRUE).current_intensity

\* The accumulator without its floor at 0.
NewIntensity_NoFloor(n, p, threshold) ==
    IF Abs(p) >= threshold THEN n + 1 ELSE n - 1

\* The accumulator: one up when |p| reaches the threshold, else one down, not below 0.
NewIntensity(n, p, threshold) ==
    IF Abs(p) >= threshold THEN n + 1 ELSE Max(n - 1, 0)

\* The trigger evaluated only when the intensity crosses the threshold.
TradingSignal_OnCrossingOnly(c) ==
    /\ currentIntensity[c] < settings.tradingIntensityThreshold
    /\ newIntensity[c] >= settings.tradingIntensityThreshold

\* newIntensity >= this.settings.tradingIntensityThreshold
TradingSignal(c) == newIntensity[c] >= settings.tradingIntensityThreshold

\* The premium the invocation observed for the coin its loop is at.
Premium(c) == results[c][idx[c]].premiumPercent

\* A loop that ends at the first coin whose premium was not computed.
NextSuccessful_StopsAtFailure(c, from) ==
    IF from \in coinMappings /\ results[c][from].status = "fulfilled" THEN from ELSE 0

\* The first coin from position from on whose premium was computed, 0 when there is none.
NextSuccessful(c, from) ==
    LET S == { k \in from..MaxCoins : results[c][k].status = "fulfilled" }
    IN  IF S = {} THEN 0 ELSE CHOOSE k \in S : \A j \in S : k <= j

\* The first active user after u, 0 when there is none.
NextUser(c, u) ==
    LET S == { v \in activeUsers[c] : v > u }
    IN  IF S = {} THEN 0 ELSE CHOOSE v \in S : \A w \in S : v <= w

\* monitorAllCoins is called.  The invocations are numbered in the order they are made.
MonitorAllCoins(c) ==
    /\ mpc[c] = "idle"
    /\ \A d \in Cycles : d < c => mpc[d] # "idle"
    /\ mpc' = [mpc EXCEPT ![c] = "fetch"]
    /\ UNCHANGED <<results, idx, activeUsers, usr, currentIntensity, newIntensity,
                   settings, userSettings, trading_intensity, intensityCache,
                   trading_opportunities, faults>>
    /\ UNCHANGED <<tradeVars, schedVars, coinMappings, updated, summary, priceVars>>

\* calculateCoinPremium of one coin settles: with a premium, or with null.
CalculateCoinPremium(c) ==
    /\ mpc[c] = "fetch"
    /\ \E k \in coinMappings :
         /\ results[c][k] = Pending
         /\ \E r \in {Failed} \cup { Fulfilled(p) : p \in Premiums } :
              results' = [results EXCEPT ![c][k] = r]
    /\ UNCHANGED <<mpc, idx, activeUsers, usr, currentIntensity, newIntensity,
                   settings, userSettings, trading_intensity, intensityCache,
                   trading_opportunities, faults>>
    /\ UNCHANGED <<tradeVars, schedVars, coinMappings, updated, summary, priceVars>>

\* The for loop over results goes on at position from: the next successful coin gets its
\* global update, and after the last one getActiveUserBots is called.
ContinueGlobal(c, from) ==
    LET k == NextSuccessful(c, from)
    IN  /\ idx' = [idx EXCEPT ![c] = k]
        /\ mpc' = [mpc EXCEPT ![c] = IF k # 0 THEN "select" ELSE "users"]
        /\ updated' = [updated EXCEPT ![c] = IF k # 0 THEN @ \cup {k} ELSE @]

\* A loop over results that starts as soon as the first coin's promise has settled.
AllSettled_FirstOnly(c) ==
    /\ mpc[c] = "fetch"
    /\ results[c][1] # Pending
    /\ ContinueGlobal(c, 1)
    /\ UNCHANGED <<results, activeUsers, usr, currentIntensity, newIntensity,
                   settings, userSettings, trading_intensity, intensityCache,
                   trading_opportunities, faults>>
    /\ UNCHANGED <<tradeVars, schedVars, coinMappings, summary, priceVars>>

\* Promise.allSettled resolves once every calculateCoinPremium has settled.
AllSettled(c) ==
    /\ mpc[c] = "fetch"
    /\ \A k \in coinMappings : results[c][k] # Pending
    /\ ContinueGlobal(c, 1)
    /\ UNCHANGED <<results, activeUsers, usr, currentIntensity, newIntensity,
                   settings, userSettings, trading_intensity, intensityCache,
                   trading_opportunities, faults>>
    /\ UNCHANGED <<tradeVars, schedVars, coinMappings, summary, priceVars>>

\* An update has returned: its locals are gone.
EndUpdate(c) ==
    /\ currentIntensity' = [currentIntensity EXCEPT ![c] = 0]
    /\ newIntensity' = [newIntensity EXCEPT ![c] = 0]

\* The catch block of updateTradingIntensity: the update returns null.
UpdateFails(c) == mpc' = [mpc EXCEPT ![c] = "null"]

\* updateTradingIntensity, SELECT of the global row, and the computation of newIntensity.
SelectGlobal(c) ==
    /\ mpc[c] = "select"
    /\ \/ LET n == SelectIntensity(idx[c], Null)
              m == NewIntensity(n, Premium(c), settings.premiumThresholdPercent)
          IN  /\ currentIntensity' = [currentIntensity EXCEPT ![c] = n]
              /\ newIntensity' = [newIntensity EXCEPT ![c] = m]
              /\ mpc' = [mpc EXCEPT ![c] = IF m # n THEN "update" ELSE "end"]
              /\ UNCHANGED faults
       \/ /\ StoreFault
          /\ UpdateFails(c)
          /\ UNCHANGED <<currentIntensity, newIntensity>>
    /\ UNCHANGED <<results, idx, activeUsers, usr, settings, userSettings,
                   trading_intensity, intensityCache, trading_opportunities>>
    /\ UNCHANGED <<tradeVars, schedVars, coinMappings, updated, summary, priceVars>>

\* An UPDATE without AND ti.user_id IS NULL: it changes the rows of the coin in every
\* scope.
UpdateGlobalRow_EveryScope(k, n, p) ==
    trading_intensity' =
        { IF r.coin_id = k
          THEN [r EXCEPT !.current_intensity = n, !.last_premium_rate = p]
          ELSE r : r \in trading_intensity }

\* UPDATE trading_intensity ... WHERE c.symbol = ? AND ti.user_id IS NULL: it changes
\* the rows it matches, and none when there is no such row.
UpdateGlobalRow(k, n, p) ==
    trading_intensity' =
        { IF r.coin_id = k /\ r.user_id = Null
          THEN [r EXCEPT !.current_intensity = n, !.last_premium_rate = p]
          ELSE r : r \in trading_intensity }

UpdateGlobal(c) ==
    /\ mpc[c] = "update"
    /\ \/ /\ UpdateGlobalRow(idx[c], newIntensity[c], Premium(c))
          /\ mpc' = [mpc EXCEPT ![c] = "setex"]
          /\ UNCHANGED faults
       \/ /\ StoreFault
          /\ UpdateFails(c)
          /\ UNCHANGED trading_intensity
    /\ UNCHANGED <<results, idx, activeUsers, usr, currentIntensity, newIntensity,
                   settings, userSettings, intensityCache, trading_opportunities>>
    /\ UNCHANGED <<tradeVars, schedVars, coinMappings, updated, summary, priceVars>>

\* redis.setex of the intensity key of (coin, scope).
Setex(k, s, n) ==
    intensityCache' =
        { e \in intensityCache : ~(e.coin = k /\ e.user = s) }
            \cup {[coin |-> k, user |-> s, value |-> n]}

SetexGlobal(c) ==
    /\ mpc[c] = "setex"
    /\ \/ /\ Setex(idx[c], Null, newIntensity[c])
          /\ mpc' = [mpc EXCEPT ![c] = "end"]
          /\ UNCHANGED faults
       \/ /\ StoreFault
          /\ UpdateFails(c)
          /\ UNCHANGED intensityCache
    /\ UNCHANGED <<results, idx, activeUsers, usr, currentIntensity, newIntensity,
                   settings, userSettings, trading_intensity, trading_opportunities>>
    /\ UNCHANGED <<tradeVars, schedVars, coinMappings, updated, summary, priceVars>>

\* connection.end(), then the trigger condition.
ConnectionEnd(c) ==
    /\ mpc[c] = "end"
    /\ mpc' = [mpc EXCEPT ![c] = IF TradingSignal(c) THEN "lpush" ELSE "return"]
    /\ UNCHANGED <<results, idx, activeUsers, usr, currentIntensity, newIntensity,
                   settings, userSettings, trading_intensity, intensityCache,
                   trading_opportunities, faults>>
    /\ UNCHANGED <<tradeVars, schedVars, coinMappings, updated, summary, priceVars>>

\* The stop index of ltrim('trading_opportunities', 0, 99).
LTrimStop == 99

\* notifyTradingOpportunity's opportunity; cycle records the invocation that emitted it.
Opportunity(c) ==
    [symbol |-> idx[c], premiumPercent |-> Premium(c), intensity |-> newIntensity[c],
     cycle |-> c]

\* notifyTradingOpportunity: redis.lpush('trading_opportunities', ...).
NotifyLPush(c) ==
    /\ mpc[c] = "lpush"
    /\ \/ /\ trading_opportunities' = <<Opportunity(c)>> \o trading_opportunities
          /\ mpc' = [mpc EXCEPT ![c] = "ltrim"]
          /\ UNCHANGED faults
       \/ /\ StoreFault
          /\ UpdateFails(c)
          /\ UNCHANGED trading_opportunities
    /\ UNCHANGED <<results, idx, activeUsers, usr, currentIntensity, newIntensity,
                   settings, userSettings, trading_intensity, intensityCache>>
    /\ UNCHANGED <<tradeVars, schedVars, coinMappings, updated, summary, priceVars>>

\* notifyTradingOpportunity: redis.ltrim('trading_opportunities', 0, 99), and the return
\* of updateTradingIntensity's result.
NotifyLTrim(c) ==
    /\ mpc[c] = "ltrim"
    /\ \/ /\ trading_opportunities' =
                 SubSeq(trading_opportunities, 1,
                        IF Len(trading_opportunities) < LTrimStop + 1
                        THEN Len(trading_opportunities) ELSE LTrimStop + 1)
          /\ mpc' = [mpc EXCEPT ![c] = "return"]
          /\ UNCHANGED faults
       \/ /\ StoreFault
          /\ UpdateFails(c)
          /\ UNCHANGED trading_opportunities
    /\ UNCHANGED <<results, idx, activeUsers, usr, currentIntensity, newIntensity,
                   settings, userSettings, trading_intensity, intensityCache>>
    /\ UNCHANGED <<tradeVars, schedVars, coinMappings, updated, summary, priceVars>>

\* monitorAllCoins resumes after await updateTradingIntensity, with a result or null.
ReturnGlobal(c) ==
    /\ mpc[c] \in {"return", "null"}
    /\ ContinueGlobal(c, idx[c] + 1)
    /\ EndUpdate(c)
    /\ UNCHANGED <<results, activeUsers, usr, settings, userSettings, trading_intensity,
                   intensityCache, trading_opportunities, faults>>
    /\ UNCHANGED <<tradeVars, schedVars, coinMappings, summary, priceVars>>

\* The loop over activeUsers goes on with the user after usr[c]; after the last one the
\* summary is written.
AdvanceUser(c) ==
    LET v == NextUser(c, usr[c])
    IN  /\ usr' = [usr EXCEPT ![c] = v]
        /\ idx' = [idx EXCEPT ![c] = 0]
        /\ mpc' = [mpc EXCEPT ![c] = IF v # 0 THEN "usettings" ELSE "summary"]

\* A loop over successful that ends after its first coin.
ContinueUser_FirstCoinOnly(c, from) ==
    LET k == NextSuccessful(c, from)
    IN  IF k # 0 /\ from = 1
        THEN /\ idx' = [idx EXCEPT ![c] = k]
             /\ mpc' = [mpc EXCEPT ![c] = "uselect"]
             /\ UNCHANGED usr
        ELSE AdvanceUser(c)

\* The loop over successful goes on at position from for the user usr[c].
ContinueUser(c, from) ==
    LET k == NextSuccessful(c, from)
    IN  IF k # 0
        THEN /\ idx' = [idx EXCEPT ![c] = k]
             /\ mpc' = [mpc EXCEPT ![c] = "uselect"]
             /\ UNCHANGED usr
        ELSE AdvanceUser(c)

\* getActiveUserBots: the users whose bot is enabled now, [] when the query fails.
GetActiveUserBots(c) ==
    /\ mpc[c] = "users"
    /\ \/ \E A \in SUBSET Users :
            /\ activeUsers' = [activeUsers EXCEPT ![c] = A]
            /\ UNCHANGED faults
       \/ /\ StoreFault
          /\ activeUsers' = [activeUsers EXCEPT ![c] = {}]
    /\ LET v == IF activeUsers'[c] = {} THEN 0
                ELSE CHOOSE u \in activeUsers'[c] : \A w \in activeUsers'[c] : u <= w
       IN  /\ usr' = [usr EXCEPT ![c] = v]
           /\ mpc' = [mpc EXCEPT ![c] = IF v # 0 THEN "usettings" ELSE "summary"]
    /\ UNCHANGED <<results, idx, currentIntensity, newIntensity, settings, userSettings,
                   trading_intensity, intensityCache, trading_opportunities>>
    /\ UNCHANGED <<tradeVars, schedVars, coinMappings, updated, summary, priceVars>>

\* getUserSettings(user.id): the user's settings, null when the query fails.
GetUserSettings(c) ==
    /\ mpc[c] = "usettings"
    /\ \/ ContinueUser(c, 1) /\ UNCHANGED faults
       \/ StoreFault /\ AdvanceUser(c)
    /\ UNCHANGED <<results, activeUsers, currentIntensity, newIntensity, settings,
                   userSettings, trading_intensity, intensityCache,
                   trading_opportunities>>
    /\ UNCHANGED <<tradeVars, schedVars, coinMappings, updated, summary, priceVars>>

\* The catch block of updateUserTradingIntensity: the update returns null.
UserUpdateFails(c) == mpc' = [mpc EXCEPT ![c] = "ureturn"]

\* updateUserTradingIntensity, SELECT of the user's row, and the computation of
\* newIntensity with the user's threshold.
SelectUser(c) ==
    /\ mpc[c] = "uselect"
    /\ \/ LET n == SelectIntensity(idx[c], usr[c])
              m == NewIntensity(n, Premium(c), userSettings[usr[c]].premiumThresholdPercent)
          IN  /\ currentIntensity' = [currentIntensity EXCEPT ![c] = n]
              /\ newIntensity' = [newIntensity EXCEPT ![c] = m]
              /\ mpc' = [mpc EXCEPT ![c] = IF m # n THEN "upsert" ELSE "ureturn"]
              /\ UNCHANGED faults
       \/ /\ StoreFault
          /\ UserUpdateFails(c)
          /\ UNCHANGED <<currentIntensity, newIntensity>>
    /\ UNCHANGED <<results, idx, activeUsers, usr, settings, userSettings,
                   trading_intensity, intensityCache, trading_opportunities>>
    /\ UNCHANGED <<tradeVars, schedVars, coinMappings, updated, summary, priceVars>>

\* INSERT INTO trading_intensity ... ON DUPLICATE KEY UPDATE: the row of (coin, user) is
\* created or overwritten.
UpsertUserRow(k, u, n, p) ==
    trading_intensity' =
        (trading_intensity \ Rows(k, u))
            \cup {[coin_id |-> k, user_id |-> u, current_intensity |-> n,
                   last_premium_rate |-> p]}

\* SELECT id FROM coins (the coins of coinMappings are rows of coins), then the upsert.
UpsertUser(c) ==
    /\ mpc[c] = "upsert"
    /\ \/ /\ UpsertUserRow(idx[c], usr[c], newIntensity[c], Premium(c))
          /\ mpc' = [mpc EXCEPT ![c] = "usetex"]
          /\ UNCHANGED faults
       \/ /\ StoreFault
          /\ UserUpdateFails(c)
          /\ UNCHANGED trading_intensity
    /\ UNCHANGED <<results, idx, activeUsers, usr, currentIntensity, newIntensity,
                   settings, userSettings, intensityCache, trading_opportunities>>
    /\ UNCHANGED <<tradeVars, schedVars, coinMappings, updated, summary, priceVars>>

SetexUser(c) ==
    /\ mpc[c] = "usetex"
    /\ \/ /\ Setex(idx[c], usr[c], newIntensity[c])
          /\ UNCHANGED faults
       \/ /\ StoreFault
          /\ UNCHANGED intensityCache
    /\ mpc' = [mpc EXCEPT ![c] = "ureturn"]
    /\ UNCHANGED <<results, idx, activeUsers, usr, currentIntensity, newIntensity,
                   settings, userSettings, trading_intensity, trading_opportunities>>
    /\ UNCHANGED <<tradeVars, schedVars, coinMappings, updated, summary, priceVars>>

\* monitorAllCoins resumes after await updateUserTradingIntensity.
ReturnUser(c) ==
    /\ mpc[c] = "ureturn"
    /\ ContinueUser(c, idx[c] + 1)
    /\ EndUpdate(c)
    /\ UNCHANGED <<results, activeUsers, settings, userSettings, trading_intensity,
                   intensityCache, trading_opportunities, faults>>
    /\ UNCHANGED <<tradeVars, schedVars, coinMappings, updated, summary, priceVars>>

\* The counts of the summary: the lengths of successful and failed after the loop over
\* results.
SummaryOf(c) ==
    [totalCoins |-> Cardinality(coinMappings),
     successful |-> Cardinality({ k \in coinMappings : results[c][k].status = "fulfilled" }),
     failed     |-> Cardinality({ k \in coinMappings : results[c][k].status # "fulfilled" })]

\* redis.setex('monitoring:latest', ...) and the return of the summary; when the command
\* fails monitorAllCoins rethrows.
WriteSummary(c) ==
    /\ mpc[c] = "summary"
    /\ \/ /\ mpc' = [mpc EXCEPT ![c] = "done"]
          /\ summary' = [summary EXCEPT ![c] = SummaryOf(c)]
          /\ UNCHANGED faults
       \/ /\ StoreFault
          /\ mpc' = [mpc EXCEPT ![c] = "thrown"]
          /\ UNCHANGED summary
    /\ results' = [results EXCEPT ![c] = [k \in Coins |-> Pending]]
    /\ activeUsers' = [activeUsers EXCEPT ![c] = {}]
    /\ UNCHANGED <<idx, usr, currentIntensity, newIntensity,
                   settings, userSettings, trading_intensity, intensityCache,
                   trading_opportunities>>
    /\ UNCHANGED <<tradeVars, schedVars, coinMappings, updated, priceVars>>

MonitorNext ==
    \/ \E c \in Cycles : MonitorAllCoins(c)
    \/ \E c \in Cycles : CalculateCoinPremium(c)
    \/ \E c \in Cycles : AllSettled(c)
    \/ \E c \in Cycles : SelectGlobal(c)
    \/ \E c \in Cycles : UpdateGlobal(c)
    \/ \E c \in Cycles : SetexGlobal(c)
    \/ \E c \in Cycles : ConnectionEnd(c)
    \/ \E c \in Cycles : NotifyLPush(c)
    \/ \E c \in Cycles : NotifyLTrim(c)
    \/ \E c \in Cycles : ReturnGlobal(c)
    \/ \E c \in Cycles : GetActiveUserBots(c)
    \/ \E c \in Cycles : GetUserSettings(c)
    \/ \E c \in Cycles : SelectUser(c)
    \/ \E c \in Cycles : UpsertUser(c)
    \/ \E c \in Cycles : SetexUser(c)
    \/ \E c \in Cycles : ReturnUser(c)
    \/ \E c \in Cycles : WriteSummary(c)

--------------------------------------------------------------------------
(* KimchiMonitoringService: startMonitoring, stopMonitoring and the timer  *)
(*                                                                         *)
(* The scheduler's calls of monitorAllCoins are the entries of cycles; a   *)
(* cycle here is its start and its settling (it returns its summary, or    *)
(* rethrows when the write of monitoring:latest fails), the steps between  *)
(* are those of the section above.  A timer is named after the             *)
(* startMonitoring invocation that armed it.                               *)

\* Number of startMonitoring invocations.
MaxStarts == 2
\* Number of timer callbacks.
MaxTicks == 2
\* Number of POST /api/monitoring/run-once requests.
MaxRunOnce == 1

Starts == 1..MaxStarts

\* The positions cycles can have: every start, callback and request makes at most one.
CycleIds == 1..(MaxStarts + MaxTicks + MaxRunOnce)

SchedInit ==
    /\ isRunning = FALSE
    /\ monitoringInterval = Null
    /\ timer = [s \in Starts |-> "none"]
    /\ spc = [s \in Starts |-> "idle"]
    /\ sret = [s \in Starts |-> "none"]
    /\ cycles = << >>
    /\ ticks = 0
    /\ unhandled = FALSE
    /\ stopResult = "none"
    /\ stopped = FALSE

\* A monitorAllCoins invocation made by the initial run of start s ("start"), by a
\* callback of timer s ("tick") or by the run-once route ("runonce", id 0).
Cycle(by, id) == [by |-> by, id |-> id, status |-> "running"]

\* The cycles that have not settled.
InFlight == { k \in 1..Len(cycles) : cycles[k].status = "running" }

\* A guard that never finds the scheduler running.
AlreadyRunning_Never == FALSE

\* if (this.isRunning) at the head of startMonitoring.
AlreadyRunning == isRunning

\* startMonitoring is called: it returns false when the scheduler is running, and awaits
\* loadSettings otherwise.  The invocations are numbered in the order they are made.
StartMonitoring(s) ==
    /\ spc[s] = "idle"
    /\ \A r \in Starts : r < s => spc[r] # "idle"
    /\ stopped' = FALSE
    /\ IF AlreadyRunning
       THEN /\ spc' = [spc EXCEPT ![s] = "done"]
            /\ sret' = [sret EXCEPT ![s] = "false"]
       ELSE /\ spc' = [spc EXCEPT ![s] = "load"]
            /\ UNCHANGED sret
    /\ UNCHANGED <<isRunning, monitoringInterval, timer, cycles, ticks, unhandled,
                   stopResult>>
    /\ UNCHANGED <<tradeVars, faults, monitorVars, priceVars>>

\* loadSettings has resolved (it catches its errors): isRunning = true, and the initial
\* monitorAllCoins is called.
LoadSettings(s) ==
    /\ spc[s] = "load"
    /\ isRunning' = TRUE
    /\ cycles' = Append(cycles, Cycle("start", s))
    /\ spc' = [spc EXCEPT ![s] = "cycle"]
    /\ UNCHANGED <<monitoringInterval, timer, sret, ticks, unhandled, stopResult, stopped>>
    /\ UNCHANGED <<tradeVars, faults, monitorVars, priceVars>>

\* A monitorAllCoins invocation returns its summary.  The initial run of a start goes on
\* to setInterval and returns true; a timer callback and the run-once route end.
CycleReturns(k) ==
    /\ k \in InFlight
    /\ cycles' = [cycles EXCEPT ![k].status = "returned"]
    /\ IF cycles[k].by = "start"
       THEN /\ timer' = [timer EXCEPT ![cycles[k].id] = "armed"]
            /\ monitoringInterval' = cycles[k].id
            /\ spc' = [spc EXCEPT ![cycles[k].id] = "done"]
            /\ sret' = [sret EXCEPT ![cycles[k].id] = "true"]
       ELSE UNCHANGED <<timer, monitoringInterval, spc, sret>>
    /\ UNCHANGED <<isRunning, ticks, unhandled, stopResult, stopped>>
    /\ UNCHANGED <<tradeVars, faults, monitorVars, priceVars>>

\* A monitorAllCoins invocation rethrows.  startMonitoring catches it, sets isRunning to
\* false and returns false; the run-once route catches it and answers 500; the timer
\* callback has no catch, so the promise it returned is rejected.
CycleThrows(k) ==
    /\ k \in InFlight
    /\ StoreFault
    /\ cycles' = [cycles EXCEPT ![k].status = "thrown"]
    /\ IF cycles[k].by = "start"
       THEN /\ isRunning' = FALSE
            /\ spc' = [spc EXCEPT ![cycles[k].id] = "done"]
            /\ sret' = [sret EXCEPT ![cycles[k].id] = "false"]
       ELSE UNCHANGED <<isRunning, spc, sret>>
    /\ unhandled' = (unhandled \/ cycles[k].by = "tick")
    /\ UNCHANGED <<monitoringInterval, timer, ticks, stopResult, stopped>>
    /\ UNCHANGED <<tradeVars, monitorVars, priceVars>>

\* A callback that calls monitorAllCoins without the test of isRunning.
Tick_Unguarded(t) ==
    /\ timer[t] = "armed"
    /\ ticks < MaxTicks
    /\ ticks' = ticks + 1
    /\ cycles' = Append(cycles, Cycle("tick", t))
    /\ UNCHANGED <<isRunning, monitoringInterval, timer, spc, sret, unhandled,
                   stopResult, stopped>>
    /\ UNCHANGED <<tradeVars, faults, monitorVars, priceVars>>

\* The callback of an armed timer runs: if (this.isRunning) await this.monitorAllCoins().
Tick(t) ==
    /\ timer[t] = "armed"
    /\ ticks < MaxTicks
    /\ ticks' = ticks + 1
    /\ IF isRunning
       THEN cycles' = Append(cycles, Cycle("tick", t))
       ELSE UNCHANGED cycles
    /\ UNCHANGED <<isRunning, monitoringInterval, timer, spc, sret, unhandled,
                   stopResult, stopped>>
    /\ UNCHANGED <<tradeVars, faults, monitorVars, priceVars>>

\* stopMonitoring: false when not running; else isRunning = false, clearInterval of the
\* timer monitoringInterval holds, monitoringInterval = null, true.
StopMonitoring ==
    /\ IF ~isRunning
       THEN /\ stopResult' = "false"
            /\ UNCHANGED <<isRunning, monitoringInterval, timer, stopped>>
       ELSE /\ isRunning' = FALSE
            /\ IF monitoringInterval # Null
               THEN timer' = [timer EXCEPT ![monitoringInterval] = "cleared"]
               ELSE UNCHANGED timer
            /\ monitoringInterval' = Null
            /\ stopResult' = "true"
            /\ stopped' = TRUE
    /\ UNCHANGED <<spc, sret, cycles, ticks, unhandled>>
    /\ UNCHANGED <<tradeVars, faults, monitorVars, priceVars>>

\* POST /api/monitoring/run-once: monitorAllCoins is called, whatever the scheduler does.
RunOnce ==
    /\ Cardinality({ k \in 1..Len(cycles) : cycles[k].by = "runonce" }) < MaxRunOnce
    /\ cycles' = Append(cycles, Cycle("runonce", 0))
    /\ UNCHANGED <<isRunning, monitoringInterval, timer, spc, sret, ticks, unhandled,
                   stopResult, stopped>>
    /\ UNCHANGED <<tradeVars, faults, monitorVars, priceVars>>

SchedNext ==
    \/ \E s \in Starts : StartMonitoring(s)
    \/ \E s \in Starts : LoadSettings(s)
    \/ \E k \in CycleIds : CycleReturns(k)
    \/ \E k \in CycleIds : CycleThrows(k)
    \/ \E t \in Starts : Tick(t)
    \/ StopMonitoring
    \/ RunOnce

--------------------------------------------------------------------------
(* Numbers *)

\* A JavaScript number is modelled as a fraction [n, d] in lowest terms with d >= 0; the
\* fractions with d = 0 are Infinity (n = 1), -Infinity (n = -1) and NaN (n = 0), which is
\* what a division by zero makes of them. The rounding of a double is not modelled.
Sign(i) == IF i > 0 THEN 1 ELSE IF i < 0 THEN -1 ELSE 0

RECURSIVE Gcd(_, _)
Gcd(a, b) == IF b = 0 THEN a ELSE Gcd(b, a % b)

Frac(n, d) ==
    IF d = 0 THEN [n |-> Sign(n), d |-> 0]
    ELSE LET g == Gcd(Abs(n), Abs(d))
         IN  [n |-> (Sign(d) * n) \div g, d |-> Abs(d) \div g]

Num(i) == Frac(i, 1)

NaN == Frac(0, 0)

IsFinite(x) == x.d # 0

IsNaN(x) == x = NaN

Neg(x) == [n |-> -x.n, d |-> x.d]

Plus(x, y) ==
    IF ~IsFinite(x) /\ ~IsFinite(y)
    THEN IF x = y THEN x ELSE NaN
    ELSE Frac(x.n * y.d + y.n * x.d, x.d * y.d)

Minus(x, y) == Plus(x, Neg(y))

Times(x, y) == Frac(x.n * y.n, x.d * y.d)

Over(x, y) == Frac(x.n * y.d, x.d * y.n)

\* x > y of JavaScript: false when an operand is NaN.
Greater(x, y) ==
    /\ ~IsNaN(x)
    /\ ~IsNaN(y)
    /\ IF IsFinite(x) /\ IsFinite(y)
       THEN x.n * y.d > y.n * x.d
       ELSE (IF IsFinite(x) THEN 0 ELSE x.n) > (IF IsFinite(y) THEN 0 ELSE y.n)

\* x >= y of JavaScript.
AtLeast(x, y) == Greater(x, y) \/ (~IsNaN(x) /\ x = y)

--------------------------------------------------------------------------
(* calculateAveragePrice *)

MaxLevels == 6      \* levels of a side of a fetched order book
MaxPrice == 2       \* prices of the levels
MaxQuantity == 2    \* quantities of the levels
MaxRate == 2        \* rates of exchange

\* calculateAveragePrice's limit, which no caller of it passes.
Limit == 5

\* The null a function returns.
NoValue == [null |-> TRUE]

Levels == [price : 1..MaxPrice, quantity : 0..MaxQuantity]

\* The sides of at most k levels, in any order.
Sides(k) == UNION {[1..n -> Levels] : n \in 0..k}

Min(a, b) == IF a < b THEN a ELSE b

\* orders.slice(0, limit)
Slice(orders, limit) == SubSeq(orders, 1, Min(limit, Len(orders)))

RECURSIVE TotalQuantity(_)
TotalQuantity(orders) ==
    IF orders = << >> THEN 0
    ELSE Head(orders).quantity + TotalQuantity(Tail(orders))

RECURSIVE TotalAmount(_)
TotalAmount(orders) ==
    IF orders = << >> THEN 0
    ELSE Head(orders).price * Head(orders).quantity + TotalAmount(Tail(orders))

\* The mean of the prices of the levels, whatever their quantities.
CalculateAveragePrice_Unweighted(orderbookData, sd) ==
    LET orders == IF sd = "ask" THEN orderbookData.asks ELSE orderbookData.bids
        limitedOrders == Slice(orders, Limit)
        prices == [i \in 1..Len(limitedOrders) |->
                     [price |-> limitedOrders[i].price, quantity |-> 1]]
    IN  IF TotalQuantity(limitedOrders) = 0 THEN NoValue
        ELSE [averagePrice |-> Frac(TotalAmount(prices), Len(limitedOrders)),
              totalQuantity |-> TotalQuantity(limitedOrders),
              totalAmount |-> TotalAmount(limitedOrders),
              ordersCount |-> Len(limitedOrders)]

CalculateAveragePrice(orderbookData, sd) ==
    LET orders == IF sd = "ask" THEN orderbookData.asks ELSE orderbookData.bids
        limitedOrders == Slice(orders, Limit)
        totalQuantity == TotalQuantity(limitedOrders)
        totalAmount == TotalAmount(limitedOrders)
    IN  IF totalQuantity = 0 THEN NoValue
        ELSE [averagePrice |-> Frac(totalAmount, totalQuantity),
              totalQuantity |-> totalQuantity,
              totalAmount |-> totalAmount,
              ordersCount |-> Len(limitedOrders)]

\* Before an order book is fetched.
PriceInit ==
    /\ ppc = "idle"
    /\ upbitOrderbook = [asks |-> << >>, bids |-> << >>]
    /\ binanceOrderbook = [asks |-> << >>, bids |-> << >>]
    /\ exchangeRate = 1
    /\ budgetKrw = 1
    /\ side = "ask"
    /\ average = NoValue
    /\ coinPremium = NoValue
    /\ premiumLatest = NoValue
    /\ marketAnalysis = NoValue
    /\ tradeParams = NoValue

\* A call of calculateAveragePrice on a side of a fetched order book.
AveragePrice ==
    /\ ppc = "book"
    /\ average' = CalculateAveragePrice(upbitOrderbook, side)
    /\ ppc' = "averaged"
    /\ UNCHANGED <<upbitOrderbook, binanceOrderbook, exchangeRate, budgetKrw, side,
                   coinPremium, premiumLatest, marketAnalysis, tradeParams>>
    /\ UNCHANGED <<tradeVars, faults, monitorVars, schedVars>>

--------------------------------------------------------------------------
(* calculateCoinPremium, analyzeMarket and calculateTradeParameters *)

Hundred == Num(100)

\* ((sellPrice - buyPriceKrw) / buyPriceKrw) * 100
PremiumOf(sellPrice, buyPriceKrw) ==
    Times(Over(Minus(sellPrice, buyPriceKrw), buyPriceKrw), Hundred)

\* JSON.stringify writes null for a number that is not finite.
Stringify(res) ==
    [res EXCEPT !.premium.premiumPercent = IF IsFinite(@) THEN @ ELSE NoValue]

\* The result calculateCoinPremium builds; reading averagePrice of a null average throws,
\* and its catch returns null.
CoinPremiumResult ==
    LET upbitAskAvg == CalculateAveragePrice(upbitOrderbook, "ask")
        upbitBidAvg == CalculateAveragePrice(upbitOrderbook, "bid")
        binanceAskAvg == CalculateAveragePrice(binanceOrderbook, "ask")
        binanceBidAvg == CalculateAveragePrice(binanceOrderbook, "bid")
    IN  IF upbitAskAvg = NoValue \/ binanceAskAvg = NoValue THEN NoValue
        ELSE LET upbitSellPrice == upbitAskAvg.averagePrice
                 binanceBuyPriceKrw == Times(binanceAskAvg.averagePrice, Num(exchangeRate))
                 premium == PremiumOf(upbitSellPrice, binanceBuyPriceKrw)
             IN  [upbit |-> [askAverage |-> upbitAskAvg, bidAverage |-> upbitBidAvg],
                  binance |-> [askAverage |-> binanceAskAvg, bidAverage |-> binanceBidAvg],
                  exchangeRate |-> exchangeRate,
                  premium |-> [upbitSellPrice |-> upbitSellPrice,
                               binanceBuyPriceKrw |-> binanceBuyPriceKrw,
                               premiumPercent |-> premium,
                               isPositive |-> Greater(premium, Num(0))]]

\* calculateCoinPremium, after its fetches: its setex of the result either succeeds or
\* throws, and its catch returns null.
PremiumOfBooks ==
    /\ ppc = "fetched"
    /\ ppc' = "premium"
    /\ \/ /\ CoinPremiumResult = NoValue
          /\ coinPremium' = NoValue
          /\ UNCHANGED <<premiumLatest, faults>>
       \/ /\ CoinPremiumResult # NoValue
          /\ premiumLatest' = Stringify(CoinPremiumResult)
          /\ coinPremium' = CoinPremiumResult
          /\ UNCHANGED faults
       \/ /\ CoinPremiumResult # NoValue
          /\ faults < MaxFaults
          /\ faults' = faults + 1
          /\ coinPremium' = NoValue
          /\ UNCHANGED premiumLatest
    /\ UNCHANGED <<upbitOrderbook, binanceOrderbook, exchangeRate, budgetKrw, side,
                   average, marketAnalysis, tradeParams>>
    /\ UNCHANGED <<tradeVars, monitorVars, schedVars>>

\* What analyzeMarket throws.
Thrown == [thrown |-> TRUE]

\* The analysis analyzeMarket returns; reading averagePrice or totalQuantity of a null
\* average throws, and its catch throws again.
MarketAnalysis ==
    LET upbitAskAvg == CalculateAveragePrice(upbitOrderbook, "ask")
        upbitBidAvg == CalculateAveragePrice(upbitOrderbook, "bid")
        binanceAskAvg == CalculateAveragePrice(binanceOrderbook, "ask")
        binanceBidAvg == CalculateAveragePrice(binanceOrderbook, "bid")
    IN  IF NoValue \in {upbitAskAvg, upbitBidAvg, binanceAskAvg, binanceBidAvg} THEN Thrown
        ELSE LET upbitSellPrice == upbitBidAvg.averagePrice
                 binanceBuyPriceKrw == Times(binanceAskAvg.averagePrice, Num(exchangeRate))
             IN  [exchangeRate |-> exchangeRate,
                  upbit |-> [askPrice |-> upbitAskAvg.averagePrice,
                             bidPrice |-> upbitBidAvg.averagePrice,
                             askQuantity |-> upbitAskAvg.totalQuantity,
                             bidQuantity |-> upbitBidAvg.totalQuantity],
                  binance |-> [askPrice |-> binanceAskAvg.averagePrice,
                               bidPrice |-> binanceBidAvg.averagePrice,
                               askPriceKrw |-> Times(binanceAskAvg.averagePrice,
                                                     Num(exchangeRate)),
                               bidPriceKrw |-> Times(binanceBidAvg.averagePrice,
                                                     Num(exchangeRate)),
                               askQuantity |-> binanceAskAvg.totalQuantity,
                               bidQuantity |-> binanceBidAvg.totalQuantity],
                  premium |-> PremiumOf(upbitSellPrice, binanceBuyPriceKrw)]

\* analyzeMarket, after its fetches.
AnalysisOfBooks ==
    /\ ppc = "fetched"
    /\ marketAnalysis' = MarketAnalysis
    /\ ppc' = IF MarketAnalysis = Thrown THEN "thrown" ELSE "analysis"
    /\ UNCHANGED <<upbitOrderbook, binanceOrderbook, exchangeRate, budgetKrw, side,
                   average, coinPremium, premiumLatest, tradeParams>>
    /\ UNCHANGED <<tradeVars, faults, monitorVars, schedVars>>

\* The names calculateTradeParameters gives the exchanges.
Binance == "Binance"

Upbit == "Upbit"

tradingFeeRate == Frac(25, 10000)

slippageRate == Frac(1, 1000)

\* The test with >= in the place of >.
IsPositivePremium_AlsoZero(premium) == AtLeast(premium, Num(0))

IsPositivePremium(premium) == Greater(premium, Num(0))

CalculateTradeParameters(budget, analysis) ==
    LET isPositivePremium == IsPositivePremium(analysis.premium)
        buyExchange == IF isPositivePremium THEN Binance ELSE Upbit
        sellExchange == IF isPositivePremium THEN Upbit ELSE Binance
        buyPrice == IF isPositivePremium THEN analysis.binance.askPriceKrw
                                         ELSE analysis.upbit.askPrice
        sellPrice == IF isPositivePremium THEN analysis.upbit.bidPrice
                                          ELSE analysis.binance.bidPriceKrw
        adjustedBuyPrice == Times(buyPrice, Plus(Num(1), slippageRate))
        adjustedSellPrice == Times(sellPrice, Minus(Num(1), slippageRate))
        buyFee == Times(Num(budget), tradingFeeRate)
        actualBudget == Minus(Num(budget), buyFee)
        quantity == Over(actualBudget, adjustedBuyPrice)
    IN  [direction |-> IF isPositivePremium THEN "BINANCE_TO_UPBIT" ELSE "UPBIT_TO_BINANCE",
         buyExchange |-> buyExchange,
         sellExchange |-> sellExchange,
         buyPrice |-> adjustedBuyPrice,
         sellPrice |-> adjustedSellPrice,
         quantity |-> quantity,
         premium |-> analysis.premium,
         tradingFeeRate |-> tradingFeeRate,
         slippageRate |-> slippageRate]

\* calculateTradeParameters, on the analysis analyzeMarket returned.
TradeParameters ==
    /\ ppc = "analysis"
    /\ tradeParams' = CalculateTradeParameters(budgetKrw, marketAnalysis)
    /\ ppc' = "parameters"
    /\ UNCHANGED <<upbitOrderbook, binanceOrderbook, exchangeRate, budgetKrw, side,
                   average, coinPremium, premiumLatest, marketAnalysis>>
    /\ UNCHANGED <<tradeVars, faults, monitorVars, schedVars>>

AverageNext == AveragePrice

PremiumNext ==
    \/ PremiumOfBooks
    \/ AnalysisOfBooks
    \/ TradeParameters

--------------------------------------------------------------------------
(* Specifications *)

\* The monitoring service before its first cycle, on a freshly seeded database.
MonitorIdle ==
    /\ MonitorInit
    /\ settings.tradingIntensityThreshold = MaxThreshold
    /\ \A u \in Users : userSettings[u] = [premiumThresholdPercent |-> 1,
                                            tradingIntensityThreshold |-> MaxThreshold]
    /\ coinMappings = Coins
    /\ trading_intensity = SeedRows(Coins)

Init == TradeInit /\ MonitorInit /\ SchedInit /\ PriceInit

Next == TradeNext \/ MonitorNext \/ SchedNext

\* No executeOnce invocation has been made, and the monitoring service is idle.
TradeStart == TradeInit /\ MonitorIdle /\ SchedInit /\ PriceInit

\* The service as app.js constructs it, before its startMonitoring call.
SchedStart == TradeInit /\ MonitorIdle /\ SchedInit /\ PriceInit

\* The scheduler: startMonitoring, stopMonitoring, timer callbacks and run-once requests.
SpecScheduler == SchedStart /\ [][SchedNext]_vars

\* executeOnce invocations, with no monitoring cycle running.
SpecTrade == TradeStart /\ [][TradeNext]_vars

\* The service with a basket of one coin, before its first cycle.
MonitorStart == TradeInit /\ MonitorInit /\ SchedInit /\ PriceInit /\ coinMappings = {1}

\* Monitoring cycles of a basket of one coin, MaxCycles of them interleaved, with no trade
\* execution running.
SpecMonitor == MonitorStart /\ [][MonitorNext]_vars

\* The summary of a cycle in which every fetch failed: such a cycle changes nothing in the
\* database and in Redis.
AllFailed == [totalCoins |-> MaxCoins, successful |-> 0, failed |-> MaxCoins]

\* The service with the full basket, after MaxCycles - 1 cycles in which every fetch
\* failed.
BasketStart ==
    /\ TradeInit
    /\ SchedInit
    /\ PriceInit
    /\ MonitorStore
    /\ coinMappings = Coins
    /\ mpc = [c \in Cycles |-> IF c < MaxCycles THEN "done" ELSE "idle"]
    /\ summary = [c \in Cycles |-> IF c < MaxCycles THEN AllFailed ELSE NoSummary]
    /\ trading_opportunities = << >>

\* One monitoring cycle over the full basket, with no trade execution running.
SpecBasket == BasketStart /\ [][MonitorNext]_vars

\* An opportunity pushed before the cycles of the model (cycle 0).
OldOpportunity == [symbol |-> 1, premiumPercent |-> 1, intensity |-> 1, cycle |-> 0]

\* The service with the full basket, after MaxCycles - 1 cycles in which every fetch
\* failed, when earlier signals have filled trading_opportunities to what ltrim keeps.
RingStart ==
    /\ TradeInit
    /\ SchedInit
    /\ PriceInit
    /\ MonitorStore
    /\ coinMappings = Coins
    /\ mpc = [c \in Cycles |-> IF c < MaxCycles THEN "done" ELSE "idle"]
    /\ summary = [c \in Cycles |-> IF c < MaxCycles THEN AllFailed ELSE NoSummary]
    /\ trading_opportunities = [i \in 1..(LTrimStop + 1) |-> OldOpportunity]

\* One monitoring cycle over the full basket, on a full list of opportunities.
SpecRing == RingStart /\ [][MonitorNext]_vars

\* An order book of which one side was fetched, before calculateAveragePrice prices that
\* side.
AverageStart ==
    /\ TradeInit
    /\ MonitorIdle
    /\ SchedInit
    /\ ppc = "book"
    /\ side \in {"ask", "bid"}
    /\ \E orders \in Sides(MaxLevels) :
           upbitOrderbook = [asks |-> IF side = "ask" THEN orders ELSE << >>,
                             bids |-> IF side = "bid" THEN orders ELSE << >>]
    /\ binanceOrderbook = [asks |-> << >>, bids |-> << >>]
    /\ exchangeRate = 1
    /\ budgetKrw = 1
    /\ average = NoValue
    /\ coinPremium = NoValue
    /\ premiumLatest = NoValue
    /\ marketAnalysis = NoValue
    /\ tradeParams = NoValue

\* calculateAveragePrice on the order books of MaxLevels levels at most.
SpecAverage == AverageStart /\ [][AverageNext]_vars

\* The order books of one level at most a side and the rate that were fetched, before
\* they are priced.
PremiumStart ==
    /\ TradeInit
    /\ MonitorIdle
    /\ SchedInit
    /\ ppc = "fetched"
    /\ upbitOrderbook \in [asks : Sides(1), bids : Sides(1)]
    /\ binanceOrderbook \in [asks : Sides(1), bids : Sides(1)]
    /\ exchangeRate \in 0..MaxRate
    /\ budgetKrw \in 1..MaxAmount
    /\ side = "ask"
    /\ average = NoValue
    /\ coinPremium = NoValue
    /\ premiumLatest = NoValue
    /\ marketAnalysis = NoValue
    /\ tradeParams = NoValue

\* The pricing of fetched order books by the monitoring cycle and by the trade engine.
SpecPremium == PremiumStart /\ [][PremiumNext]_vars

Spec == Init /\ [][Next]_vars

--------------------------------------------------------------------------
(* Properties of the trade execution engine *)

\* The invocation is between its successful SET NX and the end of its finally block.
InCriticalSection(p) ==
    /\ lockAcquired[p]
    /\ pc[p] \notin {"idle", "lock", "done"}

\* The rows createTradeRecord inserted for invocation p.
RowsOf(p) == { id \in 1..Len(trade_history) : trade_history[id].owner = p }

\* The invocation has returned (its promise resolved with result[p]).
Returned(p) == pc[p] = "done" /\ outcome[p] = "returned"

\* C1: of two concurrent executeOnce calls for the same pair exactly one proceeds past
\* lock acquisition: a call whose SET NX is answered while another call of the pair is
\* executing under the lock does not acquire it and goes to the catch block with the
\* 'already in progress' error (the store's own error when the command failed), and a
\* call rejected as 'already in progress' returns success = false with that error, a
\* null tradeId, and has no row in trade_history.
C1_SecondCallRejected ==
    /\ [][\A q \in Calls :
            (/\ pc[q] = "lock"
             /\ pc'[q] # "lock"
             /\ \E p \in Calls \ {q} : InCriticalSection(p))
            => /\ ~lockAcquired'[q]
               /\ pc'[q] = "catch"
               /\ error'[q] = IF faults' = faults THEN "IN_PROGRESS" ELSE "REDIS_ERROR"
               /\ trade_history' = trade_history]_vars
    /\ [](\A q \in Calls :
            error[q] = "IN_PROGRESS"
            => /\ RowsOf(q) = {}
               /\ Returned(q) =>
                    result[q] = [success |-> FALSE, tradeId |-> Null,
                                 error |-> "IN_PROGRESS"])

\* C2: at most one executeOnce invocation of the pair is between its successful lock
\* acquisition and its lock release, in every reachable state, also when the key expires
\* under a running execution.
C2_SamePairSerialized ==
    \A p, q \in Calls : p # q => ~(InCriticalSection(p) /\ InCriticalSection(q))

\* C3: the release is a compare-and-delete: the DEL of an invocation's finally block
\* never removes a key that holds the token of another invocation.
C3_ReleaseDeletesOwnTokenOnly ==
    [][\A p \in Calls :
         (pc[p] = "del" /\ pc'[p] = "done" /\ lockKey' # lockKey)
         => lockKey = LockToken(p)]_vars

StatusOrder == <<"pending", "buying", "transferring", "selling", "completed">>

\* A prefix of StatusOrder, optionally followed by one final 'failed'.
IsStatusSequence(log) ==
    \E k \in 1..Len(StatusOrder) :
        \/ log = SubSeq(StatusOrder, 1, k)
        \/ log = Append(SubSeq(StatusOrder, 1, k), "failed")

\* C4: the persisted status values of every TradeRecord form a prefix of pending,
\* buying, transferring, selling, completed, optionally followed by a single final
\* failed: no status is skipped, repeated or revisited.
C4_StatusSequence ==
    \A id \in 1..Len(statusLog) :
        /\ IsStatusSequence(statusLog[id])
        /\ trade_history[id].status = statusLog[id][Len(statusLog[id])]

\* A record that ran through every status and a record that failed at the buy step.
C4_Witness ==
    \E i, j \in 1..Len(statusLog) :
        /\ statusLog[i] = StatusOrder
        /\ statusLog[j] = <<"pending", "buying", "failed">>

\* C5: completedAt is set if and only if the status is terminal (completed or failed),
\* in every reachable state of every TradeRecord.
C5_CompletedAtIffTerminal ==
    \A id \in 1..Len(trade_history) :
        trade_history[id].completed_at <=> trade_history[id].status \in TerminalStatus

\* A record failed by markTradeFailed beside a record still in progress.
C5_Witness ==
    \E i, j \in 1..Len(trade_history) :
        /\ statusLog[i] = <<"pending", "failed">>
        /\ trade_history[i].completed_at
        /\ trade_history[j].status = "transferring"
        /\ ~trade_history[j].completed_at

\* One of the entry preconditions of executeOnce fails on the input.
PreconditionFails(in) ==
    \/ RequiredSettings \ in.settings # {}
    \/ in.budget < in.min
    \/ in.budget > in.max
    \/ in.coinRows = 0
    \/ in.exchangeRows < 2
    \/ in.verifiedExchanges < 2
    \/ ~in.upbitAddr
    \/ ~in.binanceAddr

\* validateTradeConditions answers not valid on every input with a failing precondition.
FailingPreconditionIsInvalid ==
    \A in \in ValidationInputs :
        PreconditionFails(in) => ValidateTradeConditions(in) # "VALID"

\* C6: when an entry precondition fails (missing settings, budget outside [min, max],
\* coin not tradable, fewer than two active exchanges, fewer than two verified
\* credentials, a missing deposit address), validation is not valid, the invocation
\* creates no TradeRecord, and what it returns is success = false with the validation
\* error and a null tradeId.
C6_PreconditionFailure ==
    /\ FailingPreconditionIsInvalid
    /\ \A p \in Calls :
         error[p] = "VALIDATION"
         => /\ tradeId[p] = Null
            /\ RowsOf(p) = {}
            /\ executionResult[p] = "none"
            /\ outcome[p] = "returned" =>
                 result[p] = [success |-> FALSE, tradeId |-> Null, error |-> "VALIDATION"]

\* An invocation returned after its validation failed.
C6_Witness ==
    \E p \in Calls : error[p] = "VALIDATION" /\ Returned(p) /\ ~result[p].success

--------------------------------------------------------------------------
(* Properties of the intensity accumulator *)

\* C8: the persisted currentIntensity of every (coin, scope) is a non-negative integer
\* in every reachable state, whatever premiums are observed and however the monitoring
\* cycles interleave.
C8_IntensityNonNegative ==
    \A r \in trading_intensity : r.current_intensity \in Nat

\* The second cycle's update has met a row at intensity 0 with a premium below the
\* threshold, and the row is still at 0.
C8_Witness ==
    \E c \in Cycles \ {1} :
        /\ mpc[c] = "return"
        /\ currentIntensity[c] = 0
        /\ newIntensity[c] = 0
        /\ Abs(Premium(c)) < settings.premiumThresholdPercent
        /\ \E r \in Rows(idx[c], Null) : r.current_intensity = 0

\* C9: each intensity update of a (coin, scope) with threshold T and observed premium p
\* changes the persisted currentIntensity from n to n+1 when |p| >= T and to
\* max(n-1, 0) otherwise, in the global scope and in every per-user scope: the step
\* that carries out the update's write (or finds nothing to write) takes the persisted
\* value n to the value of the rule.
C9_UpdateFollowsRule ==
    [][\A c \in Cycles :
         /\ (\/ mpc[c] = "update" /\ mpc'[c] = "setex"
             \/ mpc[c] = "select" /\ mpc'[c] = "end")
            => IntensityIn(trading_intensity', idx[c], Null)
                 = NewIntensity(IntensityIn(trading_intensity, idx[c], Null), Premium(c),
                                settings.premiumThresholdPercent)
         /\ (\/ mpc[c] = "upsert" /\ mpc'[c] = "usetex"
             \/ mpc[c] = "uselect" /\ mpc'[c] = "ureturn" /\ faults' = faults)
            => IntensityIn(trading_intensity', idx[c], usr[c])
                 = NewIntensity(IntensityIn(trading_intensity, idx[c], usr[c]), Premium(c),
                                userSettings[usr[c]].premiumThresholdPercent)]_vars

\* The positions in trading_opportunities of the events cycle c emitted for coin k.
EventsOf(c, k) ==
    { j \in 1..Len(trading_opportunities) :
        trading_opportunities[j].cycle = c /\ trading_opportunities[j].symbol = k }

\* C10: in the global scope a monitoring cycle emits a TradingOpportunity event for a
\* coin if and only if the intensity its update computed is >= tradingIntensityThreshold,
\* exactly once for that cycle, and in every cycle in which that holds, whether or not
\* the intensity was below the threshold before: when updateTradingIntensity returns its
\* result, the cycle has emitted one event for the coin, carrying the new intensity, if
\* the new intensity reaches the threshold, and none otherwise; no cycle ever has more
\* than one event for a coin.
C10_SignalEveryQualifyingCycle ==
    \A c \in Cycles :
        /\ \A k \in Coins : Cardinality(EventsOf(c, k)) <= 1
        /\ mpc[c] = "return"
           => /\ Cardinality(EventsOf(c, idx[c])) = 1
                   <=> newIntensity[c] >= settings.tradingIntensityThreshold
              /\ \A j \in EventsOf(c, idx[c]) :
                   trading_opportunities[j].intensity = newIntensity[c]

\* A cycle found the intensity already at the threshold, raised it and emitted its event,
\* next to the event of an earlier cycle for the same coin.
C10_Witness ==
    \E c \in Cycles :
        /\ mpc[c] = "return"
        /\ currentIntensity[c] >= settings.tradingIntensityThreshold
        /\ newIntensity[c] > currentIntensity[c]
        /\ Cardinality(EventsOf(c, idx[c])) = 1
        /\ \E d \in Cycles \ {c} : EventsOf(d, idx[c]) # {}

--------------------------------------------------------------------------
(* Properties of failure handling in executeOnce *)

\* The cycle of invocation p ended in executeTradeCycle's catch block.
CycleFailed(p) == executionResult[p] \notin {"none", "ok"}

\* The statements of executeOnce after executeTradeCycle has returned.
AfterCycle == {"finalize", "catch", "release", "del", "done"}

\* C15: executeOnce never throws to its caller: no invocation ends by exception,
\* whatever fails (lock store, validation, record store, market analysis, a trade step,
\* markTradeFailed in the catch block, the Redis commands of the finally block).
C15_NeverThrows == \A p \in Calls : outcome[p] # "thrown"

\* C18: when the buy, transfer or sell step fails, the cycle is over: no later step's
\* status is written and no step is run again (the invocation only goes on to
\* finalizeTradeRecord, the catch block and the lock release, and the only status still
\* written to its row is 'failed'), and once finalizeTradeRecord has run the row is
\* failed, has completed_at set and carries the step's error message.
C18_StepFailureEndsCycle ==
    /\ [][\A p \in Calls :
            executionResult[p] = "STEP_ERROR"
            => /\ executionResult'[p] = "STEP_ERROR"
               /\ pc[p] \in AfterCycle /\ pc'[p] \in AfterCycle
               /\ \/ statusLog'[tradeId[p]] = statusLog[tradeId[p]]
                  \/ statusLog'[tradeId[p]] = Append(statusLog[tradeId[p]], "failed")]_vars
    /\ [](\A p \in Calls :
            (/\ executionResult[p] = "STEP_ERROR"
             /\ error[p] = "none"
             /\ pc[p] \in {"release", "del", "done"})
            => /\ trade_history[tradeId[p]].status = "failed"
               /\ trade_history[tradeId[p]].completed_at
               /\ trade_history[tradeId[p]].error_message = "STEP_ERROR"
               /\ result[p].error = "STEP_ERROR")

\* A live execution whose buy step threw has been finalized and has returned; its row is
\* failed and carries the step's message.
C18_Witness ==
    \E p \in Calls :
        /\ Returned(p)
        /\ executionResult[p] = "STEP_ERROR"
        /\ error[p] = "none"
        /\ trade_history[tradeId[p]].error_message = "STEP_ERROR"
        /\ trade_history[tradeId[p]].status = "failed"

\* C19: an invocation with dryRun = false that passed validation and market analysis
\* fails at the buy step: its row's statuses are pending, buying and then failed, never
\* transferring, selling or completed, and what the invocation returns has
\* success = false.
C19_LiveTradeFailsAtBuy ==
    \A p \in Calls :
        dryRun[p] = "false"
        => /\ CycleFailed(p)
           /\ statusLog[tradeId[p]] \in {<<"pending", "buying">>,
                                         <<"pending", "buying", "failed">>}
           /\ Returned(p) => /\ statusLog[tradeId[p]] = <<"pending", "buying", "failed">>
                             /\ ~result[p].success
                             /\ result[p].tradeId = tradeId[p]

\* Two live executions in a row: each has failed at its buy step and has returned.
C19_Witness ==
    /\ \A p \in Calls : Returned(p) /\ dryRun[p] = "false" /\ ~result[p].success
    /\ \A id \in 1..Len(statusLog) : statusLog[id] = <<"pending", "buying", "failed">>
    /\ Len(statusLog) = MaxCalls

\* C20: an invocation that acquired the lock and has returned has released it: the key
\* no longer holds the invocation's token.
C20_ReturnedHasReleased ==
    \A p \in Calls : (lockAcquired[p] /\ Returned(p)) => lockKey # LockToken(p)

\* A dry run that completed under its own lock has returned, and the key is free.
C20_Witness ==
    \E p \in Calls :
        /\ lockAcquired[p]
        /\ Returned(p)
        /\ result[p].success
        /\ lockKey = Null

--------------------------------------------------------------------------
(* Properties of the monitoring cycle *)

\* The invocation is in its pass over the active users, or at the write of its summary.
AfterGlobalLoop ==
    {"users", "usettings", "uselect", "upsert", "usetex", "ureturn", "summary"}

\* The events invocation c has emitted for the coin of its current update that carry the
\* intensity this update computed.
EventsOfUpdate(c) ==
    { j \in EventsOf(c, idx[c]) : trading_opportunities[j].intensity = newIntensity[c] }

\* C11: in a per-user scope, when the updated intensity of a coin is >= that user's
\* tradingIntensityThreshold, the cycle emits a TradingOpportunity event for that scope:
\* when updateUserTradingIntensity returns with the user's row holding a new intensity at
\* or above the user's threshold, trading_opportunities holds an event of this cycle for
\* the coin with that intensity.
C11_UserScopeSignal ==
    \A c \in Cycles :
        (/\ mpc[c] = "ureturn"
         /\ newIntensity[c] >= userSettings[usr[c]].tradingIntensityThreshold
         /\ IntensityIn(trading_intensity, idx[c], usr[c]) = newIntensity[c])
        => EventsOfUpdate(c) # {}

\* C17: the failure of one coin's fetch or premium computation keeps no other coin from
\* its update, and the summary counts it as failed: once the loop over results is over,
\* updateTradingIntensity has been called for exactly the coins whose premium was
\* computed, and a returned summary has successful = the number of those coins,
\* failed = the number of the other coins of the basket, and
\* successful + failed = totalCoins = the size of the basket.
C17_CoinFailureIsolated ==
    \A c \in Cycles :
        /\ mpc[c] \in AfterGlobalLoop
           => updated[c] = { k \in coinMappings : results[c][k].status = "fulfilled" }
        /\ (mpc[c] = "done" /\ summary[c] # NoSummary)
           => /\ summary[c].totalCoins = Cardinality(coinMappings)
              /\ summary[c].successful = Cardinality(updated[c])
              /\ summary[c].failed = Cardinality(coinMappings \ updated[c])
              /\ summary[c].successful + summary[c].failed = summary[c].totalCoins

\* A cycle in which the first coin failed has returned its summary: the failure is
\* counted, and a later coin of the basket was updated and has its intensity raised.
C17_Witness ==
    \E c \in Cycles :
        /\ mpc[c] = "done"
        /\ 1 \notin updated[c]
        /\ summary[c].failed >= 1
        /\ summary[c].successful >= 1
        /\ \E k \in updated[c] : IntensityIn(trading_intensity, k, Null) = 1

--------------------------------------------------------------------------
(* Properties of the scheduler *)

\* The cycles in flight that timer callbacks started.
TimerInFlight == { k \in InFlight : cycles[k].by = "tick" }

\* What startMonitoring and stopMonitoring can change of the scheduler, cycles included.
schedulerState == <<isRunning, monitoringInterval, timer, cycles>>

\* C12: at most one timer-driven monitorAllCoins cycle of the scheduler is in flight at
\* any time: a timer callback that runs while the cycle of an earlier callback has not
\* finished starts no cycle (the tick is skipped).
C12_NoOverlappingCycles ==
    /\ [](Cardinality(TimerInFlight) <= 1)
    /\ [][(ticks' # ticks /\ TimerInFlight # {}) => cycles' = cycles]_vars

\* C13: startMonitoring invoked while the scheduler is running (isRunning is true)
\* returns false at once, starts no cycle, arms no timer and leaves isRunning,
\* monitoringInterval, the timers and the cycles as they are.
C13_StartWhileRunning ==
    [][\A s \in Starts :
         (spc[s] = "idle" /\ spc'[s] # "idle" /\ isRunning)
         => /\ spc'[s] = "done"
            /\ sret'[s] = "false"
            /\ schedulerState' = schedulerState
            /\ ticks' = ticks]_vars

\* A start has returned false without a cycle of its own, while the scheduler runs on the
\* timer an earlier start armed.
C13_Witness ==
    \E s \in Starts :
        /\ spc[s] = "done"
        /\ sret[s] = "false"
        /\ \A k \in 1..Len(cycles) : ~(cycles[k].by = "start" /\ cycles[k].id = s)
        /\ isRunning
        /\ \E r \in Starts : r < s /\ timer[r] = "armed" /\ monitoringInterval = r

\* C14: stopMonitoring returns false and changes nothing when the scheduler is not
\* running; when it returns true, isRunning is false and no timer of the scheduler is
\* armed, nor becomes armed as long as startMonitoring is not invoked again.
C14_StopCancelsTimer ==
    /\ [][(stopResult' = "false" /\ stopResult # "false") =>
            schedulerState' = schedulerState]_vars
    /\ [][(stopped' /\ ~stopped) =>
            (~isRunning' /\ \A t \in Starts : timer'[t] # "armed")]_vars
    /\ [](stopped => \A t \in Starts : timer[t] # "armed")

\* C16: an error raised inside a timer-driven cycle is caught at the cycle boundary: no
\* promise of a timer callback is ever rejected.
C16_NoUnhandledRejection == ~unhandled

\* C30: for every interleaving of startMonitoring and stopMonitoring calls at most one
\* repeating timer is armed, and an armed timer is the one monitoringInterval refers to,
\* so that stopMonitoring can clear it.
C30_NoLeakedTimer ==
    \A t \in Starts : timer[t] = "armed" => monitoringInterval = t

--------------------------------------------------------------------------
(* Crash of an executor *)

\* The process running invocation p dies, or the await p is at never settles, while p is
\* between its SET NX and the end of its finally block: p takes no further step.
Crash(p) ==
    /\ lockAcquired[p]
    /\ pc[p] \notin {"idle", "lock", "done", "crashed"}
    /\ pc' = [pc EXCEPT ![p] = "crashed"]
    /\ UNCHANGED <<lockKey, lockAcquired, dryRun, tradeId, executionResult, error,
                   outcome, result, faults, trade_history, statusLog>>
    /\ UNCHANGED <<monitorVars, schedVars, priceVars>>

CrashNext ==
    \/ TradeNext
    \/ \E p \in Calls : Crash(p)

\* executeOnce invocations some of which crash.  Redis removes a key whose time to live
\* has elapsed, so the expiry of a set key is not postponed forever.
SpecCrash == TradeStart /\ [][CrashNext]_vars /\ WF_vars(Expire)

\* C21: when an executor crashes or stalls after acquiring the lock, the key stops
\* holding its token (it expires after its TTL), a later executeOnce of the pair whose
\* SET NX then finds the key absent acquires the lock, and the rows of the crashed
\* execution stay as they were: in their last status, which is not terminal when the
\* crash came before the finalizing write.
C21_CrashedLockExpires ==
    /\ \A p \in Calls :
         (pc[p] = "crashed" /\ lockKey = LockToken(p)) ~> (lockKey # LockToken(p))
    /\ [][\A q \in Calls :
            (pc[q] = "lock" /\ pc'[q] # "lock" /\ lockKey = Null /\ faults' = faults)
            => (lockKey' = LockToken(q) /\ lockAcquired'[q])]_vars
    /\ [][\A p \in Calls :
            pc[p] = "crashed"
            => /\ pc'[p] = "crashed"
               /\ \A id \in 1..Len(trade_history) :
                    trade_history[id].owner = p => trade_history'[id] = trade_history[id]]_vars
    /\ [](\A p \in Calls :
            (pc[p] = "crashed" /\ outcome[p] = "running")
            => \A id \in RowsOf(p) : trade_history[id].status \notin TerminalStatus)

\* An execution crashed in its buy step and its row is still 'buying'; a later call of
\* the pair acquired the lock after the key had expired, completed and returned.
C21_Witness ==
    \E p, q \in Calls :
        /\ p < q
        /\ pc[p] = "crashed"
        /\ tradeId[p] # Null
        /\ trade_history[tradeId[p]].status = "buying"
        /\ lockAcquired[q]
        /\ Returned(q)
        /\ result[q].success

--------------------------------------------------------------------------
(* Properties of terminal trade records *)

\* C22: once a row of trade_history has status completed or failed, no step of the
\* engine changes its status or any other of its fields.
C22_TerminalRowIsReadOnly ==
    [][\A id \in 1..Len(trade_history) :
         trade_history[id].status \in TerminalStatus
         => trade_history'[id] = trade_history[id]]_vars

\* The row of a completed dry run is still completed, with no error message, after a
\* later execution of the pair has gone through its own statuses and failed.
C22_Witness ==
    \E i, j \in 1..Len(trade_history) :
        /\ i < j
        /\ trade_history[i].status = "completed"
        /\ trade_history[i].error_message = "none"
        /\ statusLog[j] = <<"pending", "buying", "failed">>
        /\ trade_history[j].error_message = "STEP_ERROR"

--------------------------------------------------------------------------
(* Properties of the list of opportunities *)

\* C23: trading_opportunities never holds more than 100 entries in any state a reader
\* can observe, and it is ordered newest first: an entry enters at the head, and entries
\* leave from the tail only.
C23_BoundedNewestFirst ==
    /\ [](Len(trading_opportunities) <= LTrimStop + 1)
    /\ [][\/ trading_opportunities' = trading_opportunities
          \/ /\ Len(trading_opportunities') = Len(trading_opportunities) + 1
             /\ Tail(trading_opportunities') = trading_opportunities
          \/ /\ Len(trading_opportunities') < Len(trading_opportunities)
             /\ trading_opportunities' =
                  SubSeq(trading_opportunities, 1, Len(trading_opportunities'))]_vars

--------------------------------------------------------------------------
(* Properties of the rows of trading_intensity *)

\* C24: a row of trading_intensity is created on the first observation of a (coin, scope)
\* pair: when an update that found no intensity (0) and a premium with |p| >= T has done
\* its write, a row of the pair exists and holds intensity 1, in the global scope as well
\* as in a user's scope.
C24_RowCreatedOnFirstObservation ==
    \A c \in Cycles :
        /\ (mpc[c] = "return" /\ currentIntensity[c] = 0 /\ newIntensity[c] = 1)
           => \E r \in Rows(idx[c], Null) : r.current_intensity = 1
        /\ (mpc[c] = "usetex" /\ currentIntensity[c] = 0 /\ newIntensity[c] = 1)
           => \E r \in Rows(idx[c], usr[c]) : r.current_intensity = 1

--------------------------------------------------------------------------
(* Properties of the pricing of order books *)

\* The four averages calculateCoinPremium and analyzeMarket compute.
Averages ==
    {CalculateAveragePrice(upbitOrderbook, "ask"), CalculateAveragePrice(upbitOrderbook, "bid"),
     CalculateAveragePrice(binanceOrderbook, "ask"),
     CalculateAveragePrice(binanceOrderbook, "bid")}

\* C25: when the converted buy price (the average of the foreign asks times the rate) is
\* zero, the premium computation reports a failure: calculateCoinPremium returns no
\* result, and no premium that is Infinity or NaN reaches the decision of the direction.
C25_ZeroBuyPriceIsAFailure ==
    /\ (ppc = "premium" /\ coinPremium # NoValue)
       => /\ coinPremium.premium.binanceBuyPriceKrw # Num(0)
          /\ IsFinite(coinPremium.premium.premiumPercent)
    /\ ppc = "parameters" => IsFinite(tradeParams.premium)

\* C26: when the averaging returns null for a side of an order book of either exchange,
\* calculateCoinPremium returns null.
C26_NullAverageIsAFailure ==
    (ppc = "premium" /\ NoValue \in Averages) => coinPremium = NoValue

\* The side calculateAveragePrice was called on, and the levels of it that it uses.
Orders == IF side = "ask" THEN upbitOrderbook.asks ELSE upbitOrderbook.bids

LevelsUsed == Slice(Orders, Limit)

\* C27: for an order book whose levels used have a total quantity that is not zero, the
\* average calculateAveragePrice returns lies between the lowest and the highest price of
\* the levels used, and is the sum of price * quantity over the sum of quantity of these
\* levels.
C27_AverageOfLevelsUsed ==
    (ppc = "averaged" /\ TotalQuantity(LevelsUsed) # 0)
    => /\ average # NoValue
       /\ IsFinite(average.averagePrice)
       /\ \E i, j \in 1..Len(LevelsUsed) :
            /\ LevelsUsed[i].price * average.averagePrice.d <= average.averagePrice.n
            /\ average.averagePrice.n <= LevelsUsed[j].price * average.averagePrice.d
       /\ average.averagePrice.n * TotalQuantity(LevelsUsed)
            = average.averagePrice.d * TotalAmount(LevelsUsed)

\* An order book of more levels than Limit was averaged, on levels of different prices
\* and quantities.
C27_Witness ==
    /\ ppc = "averaged"
    /\ Len(Orders) > Limit
    /\ average # NoValue
    /\ average.averagePrice.d > 1
    /\ \E i, j \in 1..Len(LevelsUsed) : LevelsUsed[i].quantity > LevelsUsed[j].quantity

\* The levels of Orders at the positions of S, in their order.
RECURSIVE Selected(_, _, _)
Selected(orders, S, i) ==
    IF i > Len(orders) THEN << >>
    ELSE (IF i \in S THEN <<orders[i]>> ELSE << >>) \o Selected(orders, S, i + 1)

\* On the side sd, price p is at least as good as price q.
NoWorse(sd, p, q) == IF sd = "ask" THEN p <= q ELSE p >= q

\* C28: of an order book with more than Limit levels on a side, in any order, the levels
\* the averaging uses are the Limit best-priced ones (the lowest asks, the highest bids).
C28_BestPricedLevelsAreUsed ==
    (ppc = "averaged" /\ Len(Orders) > Limit)
    => \E S \in SUBSET (1..Len(Orders)) :
         /\ Cardinality(S) = Limit
         /\ \A i \in S : \A j \in (1..Len(Orders)) \ S :
              NoWorse(side, Orders[i].price, Orders[j].price)
         /\ IF TotalQuantity(Selected(Orders, S, 1)) = 0 THEN average = NoValue
            ELSE /\ average # NoValue
                 /\ average.totalQuantity = TotalQuantity(Selected(Orders, S, 1))
                 /\ average.totalAmount = TotalAmount(Selected(Orders, S, 1))

\* C29: the direction follows the sign of the premium: a positive premium buys on Binance
\* and sells on Upbit, a zero or negative premium buys on Upbit and sells on Binance, and
\* the two exchanges are always different.
C29_DirectionFollowsPremiumSign ==
    ppc = "parameters"
    => /\ Greater(marketAnalysis.premium, Num(0))
          => /\ tradeParams.buyExchange = Binance
             /\ tradeParams.sellExchange = Upbit
             /\ tradeParams.direction = "BINANCE_TO_UPBIT"
       /\ AtLeast(Num(0), marketAnalysis.premium)
          => /\ tradeParams.buyExchange = Upbit
             /\ tradeParams.sellExchange = Binance
             /\ tradeParams.direction = "UPBIT_TO_BINANCE"
       /\ tradeParams.buyExchange # tradeParams.sellExchange

\* Parameters were calculated for a positive premium.
C29_Witness ==
    /\ ppc = "parameters"
    /\ Greater(tradeParams.premium, Num(0))
    /\ tradeParams.direction = "BINANCE_TO_UPBIT"

--------------------------------------------------------------------------
(* Properties of the timer callback *)

\* C31: a timer tick that fires while isRunning is false starts no monitoring cycle.
C31_IdleTickStartsNoCycle ==
    [][(ticks' = ticks + 1 /\ ~isRunning) => cycles' = cycles]_vars

\* Ticks have fired, all of them while isRunning was false: none has started a cycle.
C31_Witness ==
    /\ ticks > 0
    /\ ~isRunning
    /\ \A k \in 1..Len(cycles) : cycles[k].by # "tick"

--------------------------------------------------------------------------
(* Properties of overlapping monitoring cycles *)

\* C32: when two cycles overlap, the observation of each is applied to the coin's
\* intensity once: after the writes of two updates of a row that both observed |p| >= T,
\* the first of them from the persisted intensity n, the persisted intensity is n + 2.
\* GlobalWritten: the invocation has done the UPDATE of its global update and has not
\* returned from it. Counted: its update counted its observation, |p| >= T.
C32_NoLostUpdate ==
    LET GlobalWritten(c) == mpc[c] \in {"setex", "end", "lpush", "ltrim", "return"}
        Counted(c) == newIntensity[c] = currentIntensity[c] + 1
    IN
    \A c, d \in Cycles :
        /\ (/\ c # d
            /\ GlobalWritten(c) /\ GlobalWritten(d)
            /\ idx[c] = idx[d]
            /\ Counted(c) /\ Counted(d)
            /\ Rows(idx[c], Null) # {})
           => SelectIntensity(idx[c], Null)
                = Min(currentIntensity[c], currentIntensity[d]) + 2
        /\ (/\ c # d
            /\ mpc[c] = "usetex" /\ mpc[d] = "usetex"
            /\ idx[c] = idx[d] /\ usr[c] = usr[d]
            /\ Counted(c) /\ Counted(d))
           => SelectIntensity(idx[c], usr[c])
                = Min(currentIntensity[c], currentIntensity[d]) + 2

--------------------------------------------------------------------------
(* Properties of the order of a monitoring cycle *)

\* The invocation is in an intensity update: between the call of updateTradingIntensity
\* or updateUserTradingIntensity and its return.
InUpdate(c) ==
    mpc[c] \in {"select", "update", "setex", "end", "lpush", "ltrim", "return", "null",
                "uselect", "upsert", "usetex", "ureturn"}

\* C33: within a cycle no intensity is read or written before the premium computation of
\* every coin has settled, and the update of a coin comes after that coin's premium was
\* computed.
C33_UpdatesAfterAllSettled ==
    \A c \in Cycles :
        InUpdate(c)
        => /\ \A k \in coinMappings : results[c][k] # Pending
           /\ results[c][idx[c]].status = "fulfilled"

\* An invocation writes the intensity of a coin in a cycle in which the premium
\* computation of another coin failed.
C33_Witness ==
    \E c \in Cycles :
        /\ mpc[c] = "update"
        /\ \E k \in coinMappings : results[c][k].status = "failed"

--------------------------------------------------------------------------
(* Properties of the emission of opportunities *)

\* C34: an opportunity is emitted after the write of the intensity it reports has
\* completed: when it is pushed, the intensity it reports is the persisted intensity of
\* the global row of its coin.
C34_EventReportsPersistedIntensity ==
    [][Len(trading_opportunities') = Len(trading_opportunities) + 1
       => \E r \in Rows(Head(trading_opportunities').symbol, Null) :
            r.current_intensity = Head(trading_opportunities').intensity]_vars

--------------------------------------------------------------------------
(* Properties of the updates of a monitoring cycle *)

\* The coins whose premium the invocation computed.
Successful(c) == { k \in coinMappings : results[c][k].status = "fulfilled" }

\* The rows of a coin, in every scope.
RowsOfCoin(table, k) == { r \in table : r.coin_id = k }

\* The step ends the invocation's await of getUserSettings.
LeavesSettings(c) ==
    /\ mpc[c] = "usettings"
    /\ mpc'[c] # "usettings" \/ usr'[c] # usr[c]

\* C35: in a cycle every coin whose premium was computed gets one global update and one
\* update in the scope of every active user, and the intensity of a coin whose premium
\* computation failed is left unchanged in every scope: the loop over results has updated
\* the successful coins when it ends, it updates no coin twice, the loop over the active
\* users starts the updates of each user at the first successful coin and goes on to the
\* next one after each update, and the rows of a coin change only in an update of an
\* invocation that computed its premium.
C35_EveryScopeUpdatedOnce ==
    /\ [](\A c \in Cycles : mpc[c] = "users" => updated[c] = Successful(c))
    /\ [][\A c \in Cycles :
            /\ (mpc[c] # "select" /\ mpc'[c] = "select")
               => idx'[c] \in Successful(c) \ updated[c]
            /\ (LeavesSettings(c) /\ Successful(c) # {})
               => /\ mpc'[c] = "uselect"
                  /\ usr'[c] = usr[c]
                  /\ idx'[c] = NextSuccessful(c, 1)
            /\ (/\ mpc[c] = "ureturn" /\ mpc'[c] # "ureturn"
                /\ NextSuccessful(c, idx[c] + 1) # 0)
               => /\ mpc'[c] = "uselect"
                  /\ usr'[c] = usr[c]
                  /\ idx'[c] = NextSuccessful(c, idx[c] + 1)]_vars
    /\ [][\A k \in Coins :
            RowsOfCoin(trading_intensity', k) # RowsOfCoin(trading_intensity, k)
            => \E c \in Cycles : InUpdate(c) /\ idx[c] = k /\ k \in Successful(c)]_vars

\* C35, amended: as C35, for the active users whose settings getUserSettings returned: a
\* user whose settings query failed is passed over for the cycle, with no update of any
\* coin in that user's scope.
C35_EveryLoadedScopeUpdatedOnce ==
    /\ [](\A c \in Cycles : mpc[c] = "users" => updated[c] = Successful(c))
    /\ [][\A c \in Cycles :
            /\ (mpc[c] # "select" /\ mpc'[c] = "select")
               => idx'[c] \in Successful(c) \ updated[c]
            /\ (LeavesSettings(c) /\ Successful(c) # {})
               => IF faults' = faults
                  THEN /\ mpc'[c] = "uselect"
                       /\ usr'[c] = usr[c]
                       /\ idx'[c] = NextSuccessful(c, 1)
                  ELSE /\ mpc'[c] \in {"usettings", "summary"}
                       /\ usr'[c] = NextUser(c, usr[c])
            /\ (/\ mpc[c] = "ureturn" /\ mpc'[c] # "ureturn"
                /\ NextSuccessful(c, idx[c] + 1) # 0)
               => /\ mpc'[c] = "uselect"
                  /\ usr'[c] = usr[c]
                  /\ idx'[c] = NextSuccessful(c, idx[c] + 1)]_vars
    /\ [][\A k \in Coins :
            RowsOfCoin(trading_intensity', k) # RowsOfCoin(trading_intensity, k)
            => \E c \in Cycles : InUpdate(c) /\ idx[c] = k /\ k \in Successful(c)]_vars

\* An invocation is in the update of the second of two successful coins in the scope of
\* an active user.
C35_Witness ==
    \E c \in Cycles :
        /\ mpc[c] = "upsert"
        /\ usr[c] \in activeUsers[c]
        /\ idx[c] > 1
        /\ Cardinality(Successful(c)) > 1

--------------------------------------------------------------------------
(* Properties of the scopes *)

--------------------------------------------------------------------------
(* Properties of the writes of an update *)

\* C37: an intensity update writes to the store and to the cache exactly when the new
\* intensity differs from the old one: an update that computed a new intensity has
\* persisted it with its premium and cached it when it returns, and the table and the
\* cache change only in a write of an update whose new intensity differs from the old
\* one, so that an update at 0 with |p| < T writes nothing.
\* Persisted: the row of (k, s) holds intensity n and premium p.
C37_WritesExactlyOnChange ==
    /\ [](LET Persisted(k, s, n, p) ==
                \E r \in Rows(k, s) :
                    r.current_intensity = n /\ r.last_premium_rate = p
          IN
          \A c \in Cycles :
            /\ (mpc[c] = "return" /\ newIntensity[c] # currentIntensity[c])
               => /\ Persisted(idx[c], Null, newIntensity[c], Premium(c))
                  /\ \E e \in intensityCache :
                       e.coin = idx[c] /\ e.user = Null /\ e.value = newIntensity[c]
            /\ (mpc[c] = "usetex" /\ newIntensity[c] # currentIntensity[c])
               => Persisted(idx[c], usr[c], newIntensity[c], Premium(c)))
    /\ [][(trading_intensity' # trading_intensity \/ intensityCache' # intensityCache)
          => \E c \in Cycles :
               /\ mpc[c] \in {"update", "setex", "upsert", "usetex"}
               /\ mpc'[c] # mpc[c]
               /\ newIntensity[c] # currentIntensity[c]]_vars

--------------------------------------------------------------------------
(* Properties of the order of the writes of a trade record *)

\* C38: an execution that holds the lock and passed validation has inserted its record
\* with status pending before the market analysis and before every step; each of the
\* statuses buying, transferring and selling is persisted by a write of its own before
\* the step it names begins; and a terminal status is persisted only after the last step
\* that ran.
C38_StatusWrittenBeforeStep ==
    \A p \in Calls :
        /\ pc[p] \in {"analyze", "cycle", "buying", "buy", "transferring", "transfer",
                      "selling", "sell", "finalize"}
           => /\ lockAcquired[p]
              /\ tradeId[p] # Null
              /\ Head(statusLog[tradeId[p]]) = "pending"
              /\ trade_history[tradeId[p]].status \notin TerminalStatus
        /\ pc[p] \in {"analyze", "cycle", "buying"}
           => statusLog[tradeId[p]] = <<"pending">>
        /\ pc[p] \in {"buy", "transferring"}
           => /\ statusLog[tradeId[p]] = <<"pending", "buying">>
              /\ trade_history[tradeId[p]].status = "buying"
        /\ pc[p] \in {"transfer", "selling"}
           => /\ statusLog[tradeId[p]] = <<"pending", "buying", "transferring">>
              /\ trade_history[tradeId[p]].status = "transferring"
        /\ pc[p] = "sell"
           => /\ statusLog[tradeId[p]] = <<"pending", "buying", "transferring", "selling">>
              /\ trade_history[tradeId[p]].status = "selling"

\* An execution has run its three steps and persisted completed after them.
C38_Witness ==
    \E p \in Calls :
        /\ pc[p] = "release"
        /\ tradeId[p] # Null
        /\ statusLog[tradeId[p]]
             = <<"pending", "buying", "transferring", "selling", "completed">>

--------------------------------------------------------------------------
(* Properties of the result of executeOnce *)

\* C39: what executeOnce returns agrees with the record it created: it returns success =
\* true exactly when that record's status is completed, and when it returns success =
\* false with a tradeId that is not null, the record's status is failed and its
\* gross_profit, net_profit, profit_rate, trading_fees and transfer_fees are 0.
C39_ResultAgreesWithRecord ==
    \A p \in Calls :
        outcome[p] = "returned"
        => /\ result[p].success
              <=> /\ result[p].tradeId # Null
                  /\ trade_history[result[p].tradeId].status = "completed"
           /\ (~result[p].success /\ result[p].tradeId # Null)
              => /\ trade_history[result[p].tradeId].status = "failed"
                 /\ trade_history[result[p].tradeId].profits = "zero"

\* executeOnce has returned success = false with the id of the record it created, after
\* a cycle that failed at one of its steps.
C39_Witness ==
    \E p \in Calls :
        /\ pc[p] = "done"
        /\ outcome[p] = "returned"
        /\ ~result[p].success
        /\ result[p].tradeId # Null
        /\ executionResult[p] = "STEP_ERROR"

====
